---- MODULE Spec2Model ----
(***************************************************************************)
(* Remote monitor: the live-status store of message_builder.py.            *)
(*                                                                         *)
(* active_block_state is a Python dict whose insertion order matters; it   *)
(* is modelled as a sequence of <<key, value>> pairs in insertion order.   *)
(* block_start_time and script_history are dicts whose order is never      *)
(* read; they are functions over the set of their keys.  datetime values   *)
(* are integers (ticks), timedelta values are integer differences.         *)
(***************************************************************************)
EXTENDS Integers, Sequences, FiniteSets, TLC

\* Script names the process scan can report.
Names == {"x", "y", "z"}

\* Largest clock reading explored when all of Names run on the host, largest
\* linger and largest display limit explored.
MaxTime == 1
MaxCycleTime == 2
MaxBlocks == 3

\* dict.get(key) of a missing key.
None == "None"

VARIABLES
    active_block_state,   \* config.py: script name -> colour, in insertion order
    block_start_time,     \* config.py: script name -> datetime of last state change
    script_history,       \* config.py: script name -> list of start datetimes
    scripts,              \* the scripts that exist on the host: what a scan can report
    cycle_time,           \* Config.cycle_time (frozen after load_var)
    config_max_blocks,    \* Config.max_blocks (frozen after load_var), read by the main loop
    clock,                \* the earliest value the next datetime.now() can return
    call,                 \* the last call made on the store, its arguments and the store before it
    stopped_at,           \* observer: name -> now of the call that turned it red, kept
                          \* while the name is absent from every later snapshot
    retry_call,           \* UploadToDrive.retry: one call, its inputs and its outcome
    wrapper_call,         \* SlackClientWrapper.send_message: one call, its inputs and its outcome
    scan_call,            \* process_scan.get_active_scripts: one call, its inputs and its outcome
    pc,                   \* slack_messager.py: the statement the main thread is at
    shutdown_requested,   \* slack_messager.py: _shutdown_requested
    prod,                 \* what prod_mode() returns on this machine
    ts,                   \* slack_messager.py: timestamp of the dashboard message
    post_attempt,         \* slack_messager.py: `attempt`, the initial post's loop variable
    scanned,              \* slack_messager.py: `currently_active`, the snapshot of the cycle
    blocks,               \* slack_messager.py: the payload last built
    slack_log,            \* the calls made on the Slack wrapper, in order
    pushed,               \* the payload of the last update_message call
    cycle,                \* observer: the store when the cycle's scan ran, and
                          \* the steps of the cycle completed so far
    network_dir,          \* UploadToDrive.py: the files in Config.network_dir
    uploader_cycle,       \* UploadToDrive.py: the last cycle of the loop and what it did
    update_dir,           \* instrument_messager.py: the files in Config.network_dir
    instrument_cycle,     \* instrument_messager.py: the last cycle of the loop and what it did
    unsent,               \* observer: update files whose last send failed
    drive,                \* UploadToDrive.py: the names of the files in the Drive folder
    processed_dir,        \* UploadToDrive.py: the files in Config.processed_network_dir
    tracker,              \* slack_script_tracker.py: active_block_state, block_start_time
                          \* and script_history of the script tracker
    tracker_call          \* slack_script_tracker.py: the last update_live_status call,
                          \* its arguments and the dicts before it

\* The live-status store and what observes it.
storeVars == <<active_block_state, block_start_time, script_history, scripts, cycle_time,
               config_max_blocks, clock, call, stopped_at>>

\* The helper functions that are checked one call at a time.
helperVars == <<retry_call, wrapper_call, scan_call>>

\* The remote monitor's main thread, its signal flag and its Slack traffic.
monitorVars == <<pc, shutdown_requested, prod, ts, post_attempt, scanned, blocks,
                 slack_log, pushed, cycle>>

\* The directories the uploader and the instrument messager poll, and the
\* last cycle of each.
fileVars == <<network_dir, uploader_cycle, update_dir, instrument_cycle, unsent, drive,
              processed_dir>>

\* The script tracker's dicts and what observes them.
trackerVars == <<tracker, tracker_call>>

vars == <<storeVars, helperVars, monitorVars, fileVars, trackerVars>>

\* Everything but the store, the helpers, the monitor.
besideStore == <<helperVars, monitorVars, fileVars, trackerVars>>

besideHelpers == <<storeVars, monitorVars, fileVars, trackerVars>>

besideMonitor == <<helperVars, fileVars, trackerVars>>

\* A helper that has not been called.
NotCalled == [done |-> FALSE]

HelpersIdle ==
    /\ retry_call = NotCalled
    /\ wrapper_call = NotCalled
    /\ scan_call = NotCalled

\* Neither file poller is running.
NoCycle == [n |-> 0]

FilesIdle ==
    /\ network_dir = {}
    /\ uploader_cycle = NoCycle
    /\ update_dir = {}
    /\ instrument_cycle = NoCycle
    /\ unsent = {}
    /\ drive = {}
    /\ processed_dir = {}

\* The three dicts of slack_script_tracker.py before the first call.
EmptyTracker == [active_block_state |-> <<>>, block_start_time |-> <<>>,
                 script_history |-> <<>>]

\* No call of the tracker's update_live_status has been made; ct is the
\* cycle_time its calls will be given.
TrackerNoCall(ct) == [op |-> "none", scripts |-> {}, now |-> 0, cycle_time |-> ct,
                      pre |-> EmptyTracker]

\* The script tracker is not running.
TrackerIdle ==
    /\ tracker = EmptyTracker
    /\ tracker_call = TrackerNoCall(0)

\* slack_messager.py is not running.
MonitorIdle ==
    /\ pc = "idle"
    /\ shutdown_requested = FALSE
    /\ prod = FALSE
    /\ ts = None
    /\ post_attempt = 0
    /\ scanned = {}
    /\ blocks = <<>>
    /\ slack_log = <<>>
    /\ pushed = <<>>
    /\ cycle = <<>>

----------------------------------------------------------------------------
\* Python dict operations on an insertion-ordered dict (sequence of pairs).

KeySeq(d) == [i \in 1..Len(d) |-> d[i][1]]

KeySet(d) == {d[i][1] : i \in 1..Len(d)}

Get(d, k) ==
    IF k \in KeySet(d)
    THEN d[CHOOSE i \in 1..Len(d) : d[i][1] = k][2]
    ELSE None

\* d[k] = v : an existing key keeps its position, a new key goes last.
SetItem(d, k, v) ==
    IF k \in KeySet(d)
    THEN [i \in 1..Len(d) |-> IF d[i][1] = k THEN <<k, v>> ELSE d[i]]
    ELSE Append(d, <<k, v>>)

\* del d[k]
DelItem(d, k) == SelectSeq(d, LAMBDA p : p[1] # k)

\* Python dict operations on a dict whose order is not read (function).

FSet(f, k, v) == [x \in (DOMAIN f) \cup {k} |-> IF x = k THEN v ELSE f[x]]

\* f.pop(k, None)
FPop(f, k) == [x \in (DOMAIN f) \ {k} |-> f[x]]

\* f.setdefault(k, []).append(v)
SetDefaultAppend(f, k, v) ==
    FSet(f, k, IF k \in DOMAIN f THEN Append(f[k], v) ELSE <<v>>)

\* The orders in which `for script in currently_active` can walk a set: the
\* iteration order of a set of str is not fixed by the language.
IterationOrders(S) ==
    {o \in [1..Cardinality(S) -> S] : \A i, j \in 1..Cardinality(S) : i # j => o[i] # o[j]}

----------------------------------------------------------------------------
\* update_live_status.  st is the triple of shared dicts.

Store == [active_block_state |-> active_block_state,
          block_start_time   |-> block_start_time,
          script_history     |-> script_history]

\* Faulty variants of the first loop's body.
\* A new script is inserted without recording its activation.
OnActive_NewNotRecorded(st, script, now) ==
    LET current_status == Get(st.active_block_state, script) IN
    IF current_status = None
    THEN [st EXCEPT !.active_block_state = SetItem(@, script, "green"),
                    !.block_start_time   = FSet(@, script, now)]
    ELSE IF current_status # "green"
    THEN [active_block_state |-> SetItem(st.active_block_state, script, "green"),
          block_start_time   |-> FSet(st.block_start_time, script, now),
          script_history     |-> SetDefaultAppend(st.script_history, script, now)]
    ELSE st

\* A returning script is re-greened without resetting its start time.
OnActive_ReturnKeepsStart(st, script, now) ==
    LET current_status == Get(st.active_block_state, script) IN
    IF current_status = None
    THEN [active_block_state |-> SetItem(st.active_block_state, script, "green"),
          block_start_time   |-> FSet(st.block_start_time, script, now),
          script_history     |-> SetDefaultAppend(st.script_history, script, now)]
    ELSE IF current_status # "green"
    THEN [st EXCEPT !.active_block_state = SetItem(@, script, "green"),
                    !.script_history     = SetDefaultAppend(@, script, now)]
    ELSE st

\* Every sighting is recorded, also of a script that is already green.
OnActive_AlwaysRecorded(st, script, now) ==
    LET current_status == Get(st.active_block_state, script) IN
    [active_block_state |-> SetItem(st.active_block_state, script, "green"),
     block_start_time   |-> IF current_status = "green" THEN st.block_start_time
                            ELSE FSet(st.block_start_time, script, now),
     script_history     |-> SetDefaultAppend(st.script_history, script, now)]

\* A returning script passes through orange before going green.
OnActive_ReturnsOrange(st, script, now) ==
    LET current_status == Get(st.active_block_state, script) IN
    IF current_status = None
    THEN [active_block_state |-> SetItem(st.active_block_state, script, "green"),
          block_start_time   |-> FSet(st.block_start_time, script, now),
          script_history     |-> SetDefaultAppend(st.script_history, script, now)]
    ELSE IF current_status = "red"
    THEN [st EXCEPT !.active_block_state = SetItem(@, script, "orange")]
    ELSE IF current_status # "green"
    THEN [active_block_state |-> SetItem(st.active_block_state, script, "green"),
          block_start_time   |-> FSet(st.block_start_time, script, now),
          script_history     |-> SetDefaultAppend(st.script_history, script, now)]
    ELSE st

\* A returning script is deleted and inserted again, which moves it to the
\* end of the insertion order.
OnActive_ReturnMovesToEnd(st, script, now) ==
    LET current_status == Get(st.active_block_state, script) IN
    IF current_status = None
    THEN [active_block_state |-> SetItem(st.active_block_state, script, "green"),
          block_start_time   |-> FSet(st.block_start_time, script, now),
          script_history     |-> SetDefaultAppend(st.script_history, script, now)]
    ELSE IF current_status # "green"
    THEN [active_block_state |-> Append(DelItem(st.active_block_state, script),
                                        <<script, "green">>),
          block_start_time   |-> FSet(st.block_start_time, script, now),
          script_history     |-> SetDefaultAppend(st.script_history, script, now)]
    ELSE st

\* Body of the first loop for one script of currently_active.
OnActive(st, script, now) ==
    LET current_status == Get(st.active_block_state, script) IN
    IF current_status = None
    THEN [active_block_state |-> SetItem(st.active_block_state, script, "green"),
          block_start_time   |-> FSet(st.block_start_time, script, now),
          script_history     |-> SetDefaultAppend(st.script_history, script, now)]
    ELSE IF current_status # "green"
    THEN [active_block_state |-> SetItem(st.active_block_state, script, "green"),
          block_start_time   |-> FSet(st.block_start_time, script, now),
          script_history     |-> SetDefaultAppend(st.script_history, script, now)]
    ELSE st

RECURSIVE ActiveLoop(_, _, _)
ActiveLoop(st, order, now) ==
    IF order = <<>> THEN st
    ELSE ActiveLoop(OnActive(st, Head(order), now), Tail(order), now)

\* Faulty variants of the second loop's body.
\* A script that just stopped is flagged red without recording the stop time.
OnListed_StopNotTimed(st, script, currently_active, ct, now) ==
    IF script \in currently_active THEN st
    ELSE IF Get(st.active_block_state, script) = "green"
    THEN [st EXCEPT !.active_block_state = SetItem(@, script, "red")]
    ELSE IF Get(st.active_block_state, script) = "red"
    THEN IF /\ script \in DOMAIN st.block_start_time
            /\ now - st.block_start_time[script] >= ct
         THEN [st EXCEPT !.active_block_state = DelItem(@, script),
                         !.block_start_time   = FPop(@, script)]
         ELSE st
    ELSE st

\* The linger test is strict: > cycle_time instead of >= cycle_time.
OnListed_StrictLinger(st, script, currently_active, ct, now) ==
    IF script \in currently_active THEN st
    ELSE IF Get(st.active_block_state, script) = "green"
    THEN [st EXCEPT !.active_block_state = SetItem(@, script, "red"),
                    !.block_start_time   = FSet(@, script, now)]
    ELSE IF Get(st.active_block_state, script) = "red"
    THEN IF /\ script \in DOMAIN st.block_start_time
            /\ now - st.block_start_time[script] > ct
         THEN [st EXCEPT !.active_block_state = DelItem(@, script),
                         !.block_start_time   = FPop(@, script)]
         ELSE st
    ELSE st

\* A red entry that has not expired gets its stop time refreshed, so the
\* linger period starts again at every call.
OnListed_LingerRestarts(st, script, currently_active, ct, now) ==
    IF script \in currently_active THEN st
    ELSE IF Get(st.active_block_state, script) = "green"
    THEN [st EXCEPT !.active_block_state = SetItem(@, script, "red"),
                    !.block_start_time   = FSet(@, script, now)]
    ELSE IF Get(st.active_block_state, script) = "red"
    THEN IF /\ script \in DOMAIN st.block_start_time
            /\ now - st.block_start_time[script] >= ct
         THEN [st EXCEPT !.active_block_state = DelItem(@, script),
                         !.block_start_time   = FPop(@, script)]
         ELSE [st EXCEPT !.block_start_time = FSet(@, script, now)]
    ELSE st

\* The red test is an `if`, not an `elif`: an entry flagged red is tested
\* for expiry in the same iteration.
OnListed_RedTestedAtOnce(st, script, currently_active, ct, now) ==
    LET s1 == IF Get(st.active_block_state, script) = "green"
              THEN [st EXCEPT !.active_block_state = SetItem(@, script, "red"),
                              !.block_start_time   = FSet(@, script, now)]
              ELSE st
    IN
    IF script \in currently_active THEN st
    ELSE IF /\ Get(s1.active_block_state, script) = "red"
            /\ script \in DOMAIN s1.block_start_time
            /\ now - s1.block_start_time[script] >= ct
    THEN [s1 EXCEPT !.active_block_state = DelItem(@, script),
                    !.block_start_time   = FPop(@, script)]
    ELSE s1

\* The linger test is dropped: a red entry is removed by the next call that
\* does not see it.
OnListed_LingerIgnored(st, script, currently_active, ct, now) ==
    IF script \in currently_active THEN st
    ELSE IF Get(st.active_block_state, script) = "green"
    THEN [st EXCEPT !.active_block_state = SetItem(@, script, "red"),
                    !.block_start_time   = FSet(@, script, now)]
    ELSE IF Get(st.active_block_state, script) = "red"
    THEN [st EXCEPT !.active_block_state = DelItem(@, script),
                    !.block_start_time   = FPop(@, script)]
    ELSE st

\* The green test never matches (a misspelt colour): a script that is gone
\* stays green.
OnListed_StopMissed(st, script, currently_active, ct, now) ==
    IF script \in currently_active THEN st
    ELSE IF Get(st.active_block_state, script) = "red"
    THEN IF /\ script \in DOMAIN st.block_start_time
            /\ now - st.block_start_time[script] >= ct
         THEN [st EXCEPT !.active_block_state = DelItem(@, script),
                         !.block_start_time   = FPop(@, script)]
         ELSE st
    ELSE st

\* Linger expiry also deletes the activation history of the name.
OnListed_ExpiryDropsHistory(st, script, currently_active, ct, now) ==
    IF script \in currently_active THEN st
    ELSE IF Get(st.active_block_state, script) = "green"
    THEN [st EXCEPT !.active_block_state = SetItem(@, script, "red"),
                    !.block_start_time   = FSet(@, script, now)]
    ELSE IF Get(st.active_block_state, script) = "red"
    THEN IF /\ script \in DOMAIN st.block_start_time
            /\ now - st.block_start_time[script] >= ct
         THEN [st EXCEPT !.active_block_state = DelItem(@, script),
                         !.block_start_time   = FPop(@, script),
                         !.script_history     = FPop(@, script)]
         ELSE st
    ELSE st

\* The clock is read again in the second loop: a stop is stamped later than
\* the activations of the same call.
OnListed_StopStampedLater(st, script, currently_active, ct, now) ==
    IF script \in currently_active THEN st
    ELSE IF Get(st.active_block_state, script) = "green"
    THEN [st EXCEPT !.active_block_state = SetItem(@, script, "red"),
                    !.block_start_time   = FSet(@, script, now + 1)]
    ELSE IF Get(st.active_block_state, script) = "red"
    THEN IF /\ script \in DOMAIN st.block_start_time
            /\ now - st.block_start_time[script] >= ct
         THEN [st EXCEPT !.active_block_state = DelItem(@, script),
                         !.block_start_time   = FPop(@, script)]
         ELSE st
    ELSE st

\* Body of the second loop for one key of list(active_block_state.keys()).
OnListed(st, script, currently_active, ct, now) ==
    IF script \in currently_active THEN st
    ELSE IF Get(st.active_block_state, script) = "green"
    THEN [st EXCEPT !.active_block_state = SetItem(@, script, "red"),
                    !.block_start_time   = FSet(@, script, now)]
    ELSE IF Get(st.active_block_state, script) = "red"
    THEN IF /\ script \in DOMAIN st.block_start_time
            /\ now - st.block_start_time[script] >= ct
         THEN [st EXCEPT !.active_block_state = DelItem(@, script),
                         !.block_start_time   = FPop(@, script)]
         ELSE st
    ELSE st

RECURSIVE ListedLoop(_, _, _, _, _)
ListedLoop(st, keys, currently_active, ct, now) ==
    IF keys = <<>> THEN st
    ELSE ListedLoop(OnListed(st, Head(keys), currently_active, ct, now),
                    Tail(keys), currently_active, ct, now)

\* Whether the second loop raises KeyError: it subscripts and deletes
\* active_block_state[script] for the keys it copied before it began.
RECURSIVE ListedRaises(_, _, _, _, _)
ListedRaises(st, keys, currently_active, ct, now) ==
    IF keys = <<>> THEN FALSE
    ELSE IF Head(keys) \notin currently_active
            /\ Head(keys) \notin KeySet(st.active_block_state)
    THEN TRUE
    ELSE ListedRaises(OnListed(st, Head(keys), currently_active, ct, now),
                      Tail(keys), currently_active, ct, now)

\* Whether update_live_status raises; the first loop has no statement that can.
UpdateRaises(st, order, currently_active, ct, now) ==
    LET s1 == ActiveLoop(st, order, now) IN
    ListedRaises(s1, KeySeq(s1.active_block_state), currently_active, ct, now)

update_live_status(st, order, currently_active, ct, now) ==
    LET s1 == ActiveLoop(st, order, now) IN
    ListedLoop(s1, KeySeq(s1.active_block_state), currently_active, ct, now)

----------------------------------------------------------------------------
\* rollover_blocks.  fr holds the dict passed as `state`, the global
\* block_start_time, the keys deleted so far and whether the call raised.

\* Faulty variant: the evicted key keeps its block_start_time entry.
Evict_KeepsStartTime(fr, key) ==
    [fr EXCEPT !.state   = DelItem(@, key),
               !.evicted = Append(@, key)]

\* del state[key]; block_start_time.pop(key, None).  del raises KeyError
\* when the key is not in the dict.
Evict(fr, key) ==
    IF key \notin KeySet(fr.state)
    THEN [fr EXCEPT !.raised = TRUE]
    ELSE [fr EXCEPT !.state            = DelItem(@, key),
                    !.block_start_time = FPop(@, key),
                    !.evicted          = Append(@, key)]

RedKeys(state) == KeySeq(SelectSeq(state, LAMBDA p : p[2] = "red"))

RECURSIVE RedLoop(_, _, _)
RedLoop(fr, red_keys, max_blocks) ==
    IF red_keys = <<>> \/ fr.raised THEN fr
    ELSE IF Len(fr.state) <= max_blocks THEN fr
    ELSE RedLoop(Evict(fr, Head(red_keys)), Tail(red_keys), max_blocks)

\* Faulty variants of the first pass.
\* The red entries are evicted newest first.
FirstPass_NewestRedFirst(fr, max_blocks) ==
    LET red_keys == RedKeys(fr.state) IN
    IF Len(fr.state) > max_blocks
    THEN RedLoop(fr, [i \in 1..Len(red_keys) |-> red_keys[Len(red_keys) + 1 - i]], max_blocks)
    ELSE fr

\* The red filter matches nothing (v == "Red"), so no red entry is preferred.
FirstPass_NoRedMatch(fr, max_blocks) ==
    IF Len(fr.state) > max_blocks
    THEN RedLoop(fr, <<>>, max_blocks)
    ELSE fr

FirstPass(fr, max_blocks) ==
    IF Len(fr.state) > max_blocks
    THEN RedLoop(fr, RedKeys(fr.state), max_blocks)
    ELSE fr

\* Faulty variants of the second pass.
\* The loop stops one entry early: while len(state) > max_blocks + 1.
RECURSIVE SecondPass_StopsEarly(_, _)
SecondPass_StopsEarly(fr, max_blocks) ==
    IF ~(Len(fr.state) > max_blocks + 1) THEN fr
    ELSE IF fr.state = <<>> THEN [fr EXCEPT !.raised = TRUE]
    ELSE SecondPass_StopsEarly(Evict(fr, fr.state[1][1]), max_blocks)

\* The newest entry is evicted instead of the oldest.
RECURSIVE SecondPass_NewestFirst(_, _)
SecondPass_NewestFirst(fr, max_blocks) ==
    IF ~(Len(fr.state) > max_blocks) THEN fr
    ELSE IF fr.state = <<>> THEN [fr EXCEPT !.raised = TRUE]
    ELSE SecondPass_NewestFirst(Evict(fr, fr.state[Len(fr.state)][1]), max_blocks)

\* The overflow test is >= instead of >.
RECURSIVE SecondPass_EvictsWhenFull(_, _)
SecondPass_EvictsWhenFull(fr, max_blocks) ==
    IF ~(Len(fr.state) >= max_blocks) THEN fr
    ELSE IF fr.state = <<>> THEN [fr EXCEPT !.raised = TRUE]
    ELSE SecondPass_EvictsWhenFull(Evict(fr, fr.state[1][1]), max_blocks)

\* next(iter(state)) on an empty dict raises StopIteration.
RECURSIVE SecondPass(_, _)
SecondPass(fr, max_blocks) ==
    IF fr.raised \/ ~(Len(fr.state) > max_blocks) THEN fr
    ELSE IF fr.state = <<>> THEN [fr EXCEPT !.raised = TRUE]
    ELSE SecondPass(Evict(fr, fr.state[1][1]), max_blocks)

rollover_blocks(fr, max_blocks) == SecondPass(FirstPass(fr, max_blocks), max_blocks)

----------------------------------------------------------------------------
\* The state machine.

NoCall == [op |-> "none", currently_active |-> {}, now |-> 0, max_blocks |-> 0,
           pre |-> [active_block_state |-> <<>>, block_start_time |-> <<>>,
                    script_history |-> <<>>],
           evicted |-> <<>>, raised |-> FALSE]

\* The run is explored one clock reading further for every script of Names
\* that does not exist on the host.
LastTime == MaxTime + Cardinality(Names \ scripts)

\* The shared dicts after import, before any call.
InitStore ==
    /\ scripts \in {{"x"}, {"x", "y"}, {"x", "y", "z"}}
    /\ active_block_state = <<>>
    /\ block_start_time = <<>>
    /\ script_history = <<>>
    /\ cycle_time \in 0..MaxCycleTime
    /\ clock = 0
    /\ call = NoCall
    /\ stopped_at = <<>>
    /\ HelpersIdle
    /\ MonitorIdle
    /\ TrackerIdle
    /\ FilesIdle

\* Free calls of the two functions: rollover_blocks takes its limit as an
\* argument, so the configured limit is never read and is left at a value
\* that cannot bind.
Init ==
    /\ InitStore
    /\ config_max_blocks = MaxBlocks

\* The names update_live_status turned from green to red between pre and post.
JustStopped(pre, post) ==
    {n \in KeySet(pre) : Get(pre, n) = "green" /\ Get(post, n) = "red"}

\* The observer after an update_live_status call: a name of the snapshot is
\* forgotten, a name the call turned red is recorded with the call's now.
ObserveStops(pre, post, currently_active, now) ==
    [n \in ((DOMAIN stopped_at) \cup JustStopped(pre, post)) \ currently_active |->
        IF n \in JustStopped(pre, post) THEN now ELSE stopped_at[n]]

\* One call update_live_status(snapshot, Config.cycle_time) whose
\* datetime.now() is `now` and whose set iteration follows `order`.
UpdateLiveStatusStep(snapshot, order, now) ==
        LET r == update_live_status(Store, order, snapshot, cycle_time, now) IN
        /\ active_block_state' = r.active_block_state
        /\ block_start_time' = r.block_start_time
        /\ script_history' = r.script_history
        /\ clock' = now + 1
        /\ call' = [op |-> "update_live_status", currently_active |-> snapshot,
                    now |-> now, max_blocks |-> 0, pre |-> Store,
                    evicted |-> <<>>,
                    raised |-> UpdateRaises(Store, order, snapshot, cycle_time, now)]
        /\ stopped_at' = ObserveStops(active_block_state, r.active_block_state,
                                      snapshot, now)
        /\ UNCHANGED <<scripts, cycle_time, config_max_blocks>>

UpdateLiveStatusCall ==
    \E snapshot \in SUBSET scripts, now \in clock..LastTime :
      \E order \in IterationOrders(snapshot) :
        /\ UpdateLiveStatusStep(snapshot, order, now)
        /\ UNCHANGED besideStore

\* One call rollover_blocks(active_block_state, max_blocks).
RolloverBlocksStep(max_blocks) ==
        LET r == rollover_blocks([state |-> active_block_state,
                                  block_start_time |-> block_start_time,
                                  evicted |-> <<>>, raised |-> FALSE], max_blocks) IN
        /\ active_block_state' = r.state
        /\ block_start_time' = r.block_start_time
        /\ call' = [op |-> "rollover_blocks", currently_active |-> {},
                    now |-> clock, max_blocks |-> max_blocks, pre |-> Store,
                    evicted |-> r.evicted, raised |-> r.raised]
        /\ UNCHANGED <<script_history, scripts, cycle_time, config_max_blocks, clock,
                       stopped_at>>

RolloverBlocksWith(max_blocks) ==
    /\ RolloverBlocksStep(max_blocks)
    /\ UNCHANGED besideStore

RolloverBlocksCall == \E max_blocks \in (0 - 1)..MaxBlocks : RolloverBlocksWith(max_blocks)

Next == UpdateLiveStatusCall \/ RolloverBlocksCall

Spec == Init /\ [][Next]_vars

\* update_live_status alone, never followed by a capacity eviction.
UpdatesOnly == UpdateLiveStatusCall

SpecUpdates == Init /\ [][UpdatesOnly]_vars

\* The poll loop of slack_messager.py: every cycle calls update_live_status
\* and then rollover_blocks(active_block_state, Config.max_blocks).
LoopInit ==
    /\ InitStore
    /\ config_max_blocks \in 0..MaxBlocks

LoopUpdate ==
    /\ call.op # "update_live_status"
    /\ UpdateLiveStatusCall

LoopRollover ==
    /\ call.op = "update_live_status"
    /\ RolloverBlocksWith(config_max_blocks)

LoopNext == LoopUpdate \/ LoopRollover

LoopSpec == LoopInit /\ [][LoopNext]_vars

----------------------------------------------------------------------------
\* Properties.  call.pre is the store as the last call found it; the current
\* variables are the store as that call left it.

IsUpdate == call.op = "update_live_status"

IsRollover == call.op = "rollover_blocks"

PreState == call.pre.active_block_state

PreStart == call.pre.block_start_time

PreHistory == call.pre.script_history

Range(s) == {s[i] : i \in 1..Len(s)}

\* The keys of dict d whose value is colour c, oldest-inserted first.
KeysOfColour(d, c) == SelectSeq(KeySeq(d), LAMBDA k : Get(d, k) = c)

PreRed == KeysOfColour(PreState, "red")

PreGreen == KeysOfColour(PreState, "green")

\* By how many entries the store exceeded max_blocks when rollover_blocks began.
Excess == Len(PreState) - call.max_blocks

\* Dict d without the keys of S, the other entries in their order.
Without(d, S) == SelectSeq(d, LAMBDA p : p[1] \notin S)

Restrict(f, S) == [k \in (DOMAIN f) \ S |-> f[k]]

\* C1: after rollover_blocks(active_block_state, max_blocks) with
\* max_blocks >= 0 the store holds at most max_blocks entries.
C1_CapacityInvariant ==
    (IsRollover /\ call.max_blocks >= 0) => Len(active_block_state) <= call.max_blocks

\* A rollover that had to evict, red and green entries alike, down to a
\* non-empty store of exactly max_blocks entries.
C1_Witness ==
    /\ IsRollover
    /\ call.max_blocks >= 1
    /\ Len(PreState) > call.max_blocks
    /\ Len(active_block_state) = call.max_blocks
    /\ PreRed # <<>>
    /\ Range(call.evicted) \cap Range(PreGreen) # {}

\* C2: when the store exceeds max_blocks by k and holds at least k red
\* entries, rollover_blocks evicts exactly the k oldest-inserted red entries,
\* oldest first, and no green entry; {x:red, y:green, z:red} with
\* max_blocks = 1 ends as {y}.
C2_EvictionPreference ==
    /\ (IsRollover /\ Excess > 0 /\ Excess <= Len(PreRed)) =>
          /\ call.evicted = SubSeq(PreRed, 1, Excess)
          /\ active_block_state = Without(PreState, Range(SubSeq(PreRed, 1, Excess)))
          /\ Range(PreGreen) \subseteq KeySet(active_block_state)
    /\ (/\ IsRollover
        /\ PreState = << <<"x", "red">>, <<"y", "green">>, <<"z", "red">> >>
        /\ call.max_blocks = 1) =>
          active_block_state = << <<"y", "green">> >>

\* Scenario E has happened.
C2_Witness ==
    /\ IsRollover
    /\ PreState = << <<"x", "red">>, <<"y", "green">>, <<"z", "red">> >>
    /\ call.max_blocks = 1
    /\ call.evicted = <<"x", "z">>

\* C3: whenever a rollover_blocks call removes a green entry, no red entry
\* is left in the store when it returns.
C3_GreenEvictedOnlyWhenForced ==
    (IsRollover /\ Range(call.evicted) \cap Range(PreGreen) # {}) =>
        KeysOfColour(active_block_state, "red") = <<>>

\* A rollover that removed a green entry of a store that also held red ones
\* and left something behind.
C3_Witness ==
    /\ IsRollover
    /\ Range(call.evicted) \cap Range(PreGreen) # {}
    /\ PreRed # <<>>
    /\ active_block_state # <<>>

\* The names rollover_blocks(state, N) has to remove from a store of more
\* than N entries: the oldest Excess red ones if there are that many, else
\* every red one and the oldest green ones beyond the newest N.
ExpectedRemoved ==
    IF Excess <= Len(PreRed)
    THEN Range(SubSeq(PreRed, 1, Excess))
    ELSE Range(PreRed) \cup Range(SubSeq(PreGreen, 1, Excess - Len(PreRed)))

\* C4: exact result of rollover_blocks(state, N), N >= 0, on a store with
\* more than N entries: the expected names are removed from the store and
\* from block_start_time, the survivors keep order, status and since, and
\* when the red entries do not suffice exactly the N newest green remain.
C4_ExactResult ==
    (IsRollover /\ call.max_blocks >= 0 /\ Excess > 0) =>
        /\ active_block_state = Without(PreState, ExpectedRemoved)
        /\ block_start_time = Restrict(PreStart, ExpectedRemoved)
        /\ Range(call.evicted) = ExpectedRemoved
        /\ Excess > Len(PreRed) =>
              /\ Len(active_block_state) = call.max_blocks
              /\ KeySeq(active_block_state) =
                    SubSeq(PreGreen, Len(PreGreen) - call.max_blocks + 1, Len(PreGreen))
              /\ \A i \in 1..Len(active_block_state) : active_block_state[i][2] = "green"

\* A rollover that ran out of red entries and removed a proper part of the
\* green ones.
C4_Witness ==
    /\ IsRollover
    /\ call.max_blocks >= 1
    /\ Len(PreRed) >= 1
    /\ Excess > Len(PreRed)
    /\ Len(PreGreen) > call.max_blocks
    /\ KeySeq(active_block_state) = SubSeq(PreGreen, Len(PreGreen) - call.max_blocks + 1, Len(PreGreen))

\* C5: rollover_blocks is a no-op when the store has at most max_blocks
\* entries: the three dicts are unchanged.
C5_NoOpWithinCapacity ==
    (IsRollover /\ Len(PreState) <= call.max_blocks) =>
        /\ active_block_state = PreState
        /\ block_start_time = PreStart
        /\ script_history = PreHistory
        /\ call.evicted = <<>>

\* A rollover of a store that is exactly full and holds a red entry.
C5_Witness ==
    /\ IsRollover
    /\ Len(PreState) = call.max_blocks
    /\ PreRed # <<>>
    /\ PreGreen # <<>>
    /\ active_block_state = PreState

\* activation history of a name before the call ([] when it has none).
PreHistoryOf(n) == IF n \in DOMAIN PreHistory THEN PreHistory[n] ELSE <<>>

\* C6: every name of the snapshot that is absent from active_block_state
\* when update_live_status is called is green afterwards, its since is the
\* call's now and now is the last element of its activation history; from
\* the empty store, snapshot {x} at T0 gives status green, since T0 and
\* history [T0].
C6_NewEntity ==
    /\ IsUpdate =>
          \A n \in call.currently_active \ KeySet(PreState) :
              /\ Get(active_block_state, n) = "green"
              /\ n \in DOMAIN block_start_time
              /\ block_start_time[n] = call.now
              /\ n \in DOMAIN script_history
              /\ script_history[n] = Append(PreHistoryOf(n), call.now)
    /\ (/\ IsUpdate
        /\ PreState = <<>> /\ DOMAIN PreStart = {} /\ DOMAIN PreHistory = {}
        /\ call.currently_active = {"x"}) =>
          /\ active_block_state = << <<"x", "green">> >>
          /\ block_start_time = [n \in {"x"} |-> call.now]
          /\ script_history = [n \in {"x"} |-> <<call.now>>]

\* Scenario A has happened.
C6_Witness ==
    /\ IsUpdate
    /\ PreState = <<>> /\ DOMAIN PreStart = {} /\ DOMAIN PreHistory = {}
    /\ call.currently_active = {"x"}
    /\ call.now = 0
    /\ script_history = [n \in {"x"} |-> <<0>>]

\* C7: every name that is red in the store and is in the snapshot is green
\* after update_live_status, its since is now, and exactly one timestamp,
\* now, has been appended to its activation history.
C7_Reactivation ==
    IsUpdate =>
        \A n \in call.currently_active \cap Range(PreRed) :
            /\ Get(active_block_state, n) = "green"
            /\ n \in DOMAIN block_start_time
            /\ block_start_time[n] = call.now
            /\ n \in DOMAIN PreHistory
            /\ n \in DOMAIN script_history
            /\ script_history[n] = Append(PreHistory[n], call.now)

\* Scenario D has happened: started at 0, stopped at 1, back at 2.
C7_Witness ==
    /\ IsUpdate
    /\ "x" \in call.currently_active \cap Range(PreRed)
    /\ PreStart["x"] = 1
    /\ PreHistory["x"] = <<0>>
    /\ call.now = 2
    /\ script_history["x"] = <<0, 2>>

\* C8: a name that is already green and is in the snapshot keeps its
\* status, its since and its activation history.
C8_StillRunningUntouched ==
    IsUpdate =>
        \A n \in call.currently_active \cap Range(PreGreen) :
            /\ Get(active_block_state, n) = "green"
            /\ n \in DOMAIN block_start_time
            /\ block_start_time[n] = PreStart[n]
            /\ n \in DOMAIN script_history
            /\ script_history[n] = PreHistory[n]

\* A script seen running by three calls in a row, at 0, 1 and 2.
C8_Witness ==
    /\ IsUpdate
    /\ "x" \in call.currently_active \cap Range(PreGreen)
    /\ call.now = 2
    /\ block_start_time["x"] = 0
    /\ script_history["x"] = <<0>>

\* C9: a name that is green in the store and is not in the snapshot is red
\* after update_live_status, its since is now, it is still in the store and
\* its activation history is unchanged.
C9_JustStopped ==
    IsUpdate =>
        \A n \in Range(PreGreen) \ call.currently_active :
            /\ n \in KeySet(active_block_state)
            /\ Get(active_block_state, n) = "red"
            /\ n \in DOMAIN block_start_time
            /\ block_start_time[n] = call.now
            /\ n \in DOMAIN script_history
            /\ script_history[n] = PreHistory[n]

\* Scenario B has happened: started at 0, found gone at 1.
C9_Witness ==
    /\ IsUpdate
    /\ "x" \in Range(PreGreen) \ call.currently_active
    /\ PreStart["x"] = 0
    /\ call.now = 1
    /\ Get(active_block_state, "x") = "red"
    /\ block_start_time["x"] = 1

\* C10: a name that is red when update_live_status is called and is not in
\* the snapshot is removed from active_block_state and from block_start_time
\* if and only if now - since >= cycle_time; otherwise its status and since
\* are unchanged.
C10_LingerExpiry ==
    IsUpdate =>
        \A n \in Range(PreRed) \ call.currently_active :
            IF call.now - PreStart[n] >= cycle_time
            THEN /\ n \notin KeySet(active_block_state)
                 /\ n \notin DOMAIN block_start_time
            ELSE /\ n \in KeySet(active_block_state)
                 /\ Get(active_block_state, n) = "red"
                 /\ n \in DOMAIN block_start_time
                 /\ block_start_time[n] = PreStart[n]

\* A red entry removed by the call made exactly cycle_time > 0 after it
\* stopped: the boundary of the linger test.
C10_Witness ==
    /\ IsUpdate
    /\ "x" \in Range(PreRed) \ call.currently_active
    /\ cycle_time > 0
    /\ call.now - PreStart["x"] = cycle_time
    /\ "x" \notin KeySet(active_block_state)

\* C11: over update_live_status calls alone, an entity that became STOPPED
\* at t0 and is absent from every later snapshot is in the store after every
\* call whose now is earlier than t0 + cycle_time and is not in the store
\* after any later call whose now is at or after t0 + cycle_time.
C11_MonotonicLinger ==
    IsUpdate =>
        \A n \in DOMAIN stopped_at :
            IF call.now = stopped_at[n] \/ call.now < stopped_at[n] + cycle_time
            THEN /\ n \in KeySet(active_block_state)
                 /\ Get(active_block_state, n) = "red"
            ELSE n \notin KeySet(active_block_state)

\* Stopped at 1 with a linger of 2: still there when the call at 3 began,
\* gone when it returned.
C11_Witness ==
    /\ IsUpdate
    /\ "x" \in DOMAIN stopped_at
    /\ stopped_at["x"] = 1
    /\ cycle_time = 2
    /\ call.now = 3
    /\ "x" \in KeySet(PreState)
    /\ "x" \notin KeySet(active_block_state)

\* C12: a single update_live_status call never removes an entity that was
\* green when the call began, whatever the snapshot and cycle_time: if it is
\* absent from the snapshot it is only flagged red; and with cycle_time = 0
\* an entity flagged red by an earlier call and absent since is no longer in
\* the store after the next call.
C12_NeverRemovedInStoppingCall ==
    IsUpdate =>
        /\ \A n \in Range(PreGreen) :
              /\ n \in KeySet(active_block_state)
              /\ n \notin call.currently_active => Get(active_block_state, n) = "red"
        /\ cycle_time = 0 =>
              \A n \in DOMAIN stopped_at :
                  call.now > stopped_at[n] => n \notin KeySet(active_block_state)

\* Zero linger, empty snapshot: y, green when the call began, is flagged red
\* and kept, while x, flagged red by the call before, is removed.
C12_Witness ==
    /\ IsUpdate
    /\ cycle_time = 0
    /\ call.currently_active = {}
    /\ "y" \in Range(PreGreen)
    /\ Get(active_block_state, "y") = "red"
    /\ "x" \in Range(PreRed)
    /\ "x" \in DOMAIN stopped_at
    /\ stopped_at["x"] < call.now
    /\ "x" \notin KeySet(active_block_state)

\* The now of the last update_live_status call: the current cycle's now.
CycleNow == clock - 1

\* The names that became STOPPED, were absent from every snapshot since, and
\* whose linger period has not elapsed at the current cycle's now.
Lingering == {n \in DOMAIN stopped_at : CycleNow < stopped_at[n] + cycle_time}

\* C13 as stated: in the poll loop every entity that became STOPPED at t0 is
\* in the store at the end of every cycle whose now is earlier than
\* t0 + cycle_time.
C13_LingerIsMinimumVisibility ==
    IsRollover => Lingering \subseteq KeySet(active_block_state)

\* C13 as amended: in the poll loop an entity that became STOPPED at t0
\* leaves the store in a cycle whose now is earlier than t0 + cycle_time only
\* by a capacity eviction: rollover_blocks found more than max_blocks entries
\* and deleted it; update_live_status never removes it that early.
C13_LeavesEarlyOnlyByEviction ==
    \A n \in Lingering \cap KeySet(PreState) :
        n \notin KeySet(active_block_state) =>
            /\ IsRollover
            /\ Len(PreState) > call.max_blocks
            /\ n \in Range(call.evicted)

\* The end of a cycle whose rollover evicted a STOPPED entity before its
\* linger period elapsed.
C13_Witness ==
    /\ IsRollover
    /\ "x" \in Lingering
    /\ "x" \in Range(call.evicted)
    /\ call.max_blocks = config_max_blocks
    /\ call.max_blocks >= 1

\* C14: in every state reached by update_live_status and rollover_blocks
\* calls from the empty store, active_block_state and block_start_time have
\* the same key set.
C14_SameKeySet == KeySet(active_block_state) = DOMAIN block_start_time

\* A rollover has removed x, which had a since entry, and left other
\* entries behind.
C14_Witness ==
    /\ IsRollover
    /\ "x" \in Range(call.evicted)
    /\ "x" \in DOMAIN PreStart
    /\ active_block_state # <<>>
    /\ DOMAIN block_start_time # {}

\* The names that are green in the store.
Greens == Range(KeysOfColour(active_block_state, "green"))

\* C15: after every update_live_status call every green entity is a member
\* of the snapshot passed to that call, and that is still so after the
\* rollover_blocks call that follows it.
C15_GreenImpliesInSnapshot ==
    /\ [](IsUpdate => Greens \subseteq call.currently_active)
    /\ [][(IsUpdate /\ call'.op = "rollover_blocks") =>
             Greens' \subseteq call.currently_active]_vars

\* A call that found x and y green, saw only y, and flagged x red.
C15_Witness ==
    /\ IsUpdate
    /\ call.currently_active = {"y"}
    /\ "x" \in Range(PreGreen)
    /\ "y" \in Range(PreGreen)
    /\ Greens = {"y"}
    /\ Get(active_block_state, "x") = "red"

\* C16: in every reachable state each tracked name has exactly one status,
\* green or red; a returning entity is green, never orange, after the call
\* that sees it again.
C16_OneStatusGreenOrRed ==
    /\ \A i, j \in 1..Len(active_block_state) :
          active_block_state[i][1] = active_block_state[j][1] => i = j
    /\ \A i \in 1..Len(active_block_state) : active_block_state[i][2] \in {"green", "red"}
    /\ IsUpdate =>
          \A n \in call.currently_active \cap Range(PreRed) :
              Get(active_block_state, n) = "green"

\* x has come back while y is red: both statuses are in the store.
C16_Witness ==
    /\ IsUpdate
    /\ "x" \in call.currently_active \cap Range(PreRed)
    /\ Get(active_block_state, "x") = "green"
    /\ Get(active_block_state, "y") = "red"

IsPrefix(s, t) == Len(s) <= Len(t) /\ SubSeq(t, 1, Len(s)) = s

\* C17: update_live_status never removes or rewrites an activation-history
\* entry: for every name the history before the call is a prefix of the
\* history after it, also for names the call flags red or removes.
C17_HistoryOnlyGrows ==
    IsUpdate =>
        \A n \in DOMAIN PreHistory :
            /\ n \in DOMAIN script_history
            /\ IsPrefix(PreHistory[n], script_history[n])

\* A call that removed x by linger expiry and left its history in place.
C17_Witness ==
    /\ IsUpdate
    /\ "x" \in Range(PreRed)
    /\ "x" \notin KeySet(active_block_state)
    /\ "x" \in DOMAIN script_history
    /\ script_history["x"] = PreHistory["x"]
    /\ Len(script_history["x"]) >= 1

\* C18: when an entity is destroyed, by linger expiry or by capacity
\* eviction, its activation history is deleted with its status and since
\* entries: a name absent from the store has no activation history.
C18_NoHistoryWithoutEntry == DOMAIN script_history \subseteq KeySet(active_block_state)

\* One cycle of the poll loop as a function of its inputs and of the order
\* in which the snapshot set is iterated: the store after update_live_status
\* and rollover_blocks, as the mappings Python's dict equality compares.
CycleResult(st, order, currently_active, ct, now, max_blocks) ==
    LET u == update_live_status(st, order, currently_active, ct, now)
        r == rollover_blocks([state |-> u.active_block_state,
                              block_start_time |-> u.block_start_time,
                              evicted |-> <<>>, raised |-> FALSE], max_blocks)
    IN  [active_block_state |-> Range(r.state),
         block_start_time   |-> r.block_start_time,
         script_history     |-> u.script_history]

\* C19: from the same store, snapshot, cycle_time, now and max_blocks,
\* update_live_status followed by rollover_blocks produces one store,
\* whichever way the snapshot set is iterated.
C19_CycleDeterministic ==
    IsUpdate =>
        \A max_blocks \in 0..MaxBlocks :
            \A o1, o2 \in IterationOrders(call.currently_active) :
                CycleResult(call.pre, o1, call.currently_active, cycle_time,
                            call.now, max_blocks)
                  = CycleResult(call.pre, o2, call.currently_active, cycle_time,
                                call.now, max_blocks)

\* The position of key k in the sequence of keys s.
PosIn(s, k) == CHOOSE i \in 1..Len(s) : s[i] = k

\* C20 as stated: among entries of the same status the oldest-inserted is
\* evicted last, so an evicted entry has every newer entry of its status
\* evicted before it.
C20_OldestEvictedLast ==
    IsRollover =>
        \A i, j \in 1..Len(PreState) :
            (/\ i < j
             /\ PreState[i][2] = PreState[j][2]
             /\ PreState[i][1] \in Range(call.evicted)) =>
                /\ PreState[j][1] \in Range(call.evicted)
                /\ PosIn(call.evicted, PreState[j][1]) < PosIn(call.evicted, PreState[i][1])

\* C20: among entries of the same status the oldest-inserted is evicted
\* first: an evicted entry has every older entry of its status evicted
\* before it.
C20_OldestEvictedFirst ==
    IsRollover =>
        \A i, j \in 1..Len(PreState) :
            (/\ i < j
             /\ PreState[i][2] = PreState[j][2]
             /\ PreState[j][1] \in Range(call.evicted)) =>
                /\ PreState[i][1] \in Range(call.evicted)
                /\ PosIn(call.evicted, PreState[i][1]) < PosIn(call.evicted, PreState[j][1])

\* Of two green entries the older one went and the newer one stayed.
C20_Witness ==
    /\ IsRollover
    /\ Len(PreGreen) = 2
    /\ call.max_blocks = 1
    /\ call.evicted = <<PreGreen[1]>>
    /\ KeySeq(active_block_state) = <<PreGreen[2]>>

----------------------------------------------------------------------------
\* UploadToDrive.retry(func, *args, retries, delay).
\* What one call of func does is drawn beforehand: it raises, returns a
\* falsy value (None) or returns a truthy value (True, or a file id).

\* Largest `retries` explored.
MaxRetries == 3

FuncOutcomes == {"raise", "None", "True", "id"}

Truthy(v) == v \in {"True", "id"}

SeqsOfLen(S, n) == [1..n -> S]

\* The frame of a running retry: what was done so far, in order.
RetryStart == [events |-> <<>>, result |-> "running"]

\* Faulty variants of the attempt loop.
\* Sleeps after every failed attempt, the last one included.
RECURSIVE RetryLoop_SleepsAfterLast(_, _, _, _)
RetryLoop_SleepsAfterLast(outcomes, retries, attempt, fr) ==
    IF attempt > retries
    THEN [fr EXCEPT !.result = "False"]
    ELSE LET called == [fr EXCEPT !.events = Append(@, "call")] IN
         IF Truthy(outcomes[attempt])
         THEN [called EXCEPT !.result = outcomes[attempt]]
         ELSE RetryLoop_SleepsAfterLast(outcomes, retries, attempt + 1,
                                        [called EXCEPT !.events = Append(@, "sleep")])

\* for attempt in range(1, retries + 1): ... ; return False
RECURSIVE RetryLoop(_, _, _, _)
RetryLoop(outcomes, retries, attempt, fr) ==
    IF attempt > retries
    THEN [fr EXCEPT !.result = "False"]
    ELSE LET called == [fr EXCEPT !.events = Append(@, "call")] IN
         IF Truthy(outcomes[attempt])
         THEN [called EXCEPT !.result = outcomes[attempt]]
         ELSE RetryLoop(outcomes, retries, attempt + 1,
                        IF attempt < retries
                        THEN [called EXCEPT !.events = Append(@, "sleep")]
                        ELSE called)

retry(outcomes, retries) == RetryLoop(outcomes, retries, 1, RetryStart)

StoreIdle ==
    /\ scripts = {}
    /\ active_block_state = <<>>
    /\ block_start_time = <<>>
    /\ script_history = <<>>
    /\ cycle_time = 0
    /\ config_max_blocks = 0
    /\ clock = 0
    /\ call = NoCall
    /\ stopped_at = <<>>

RetryInit ==
    /\ StoreIdle
    /\ MonitorIdle
    /\ TrackerIdle
    /\ FilesIdle
    /\ wrapper_call = NotCalled
    /\ scan_call = NotCalled
    /\ \E retries \in 0..MaxRetries :
         \E outcomes \in SeqsOfLen(FuncOutcomes, MaxRetries) :
             retry_call = [done |-> FALSE, outcomes |-> outcomes, retries |-> retries]

RetryCall ==
    /\ ~retry_call.done
    /\ LET r == retry(retry_call.outcomes, retry_call.retries) IN
       retry_call' = [done |-> TRUE, outcomes |-> retry_call.outcomes,
                      retries |-> retry_call.retries,
                      events |-> r.events, result |-> r.result]
    /\ UNCHANGED <<besideHelpers, wrapper_call, scan_call>>

RetrySpec == RetryInit /\ [][RetryCall]_vars

Count(s, e) == Cardinality({i \in 1..Len(s) : s[i] = e})

\* The attempts, among the first n, on which func returns a truthy value.
TruthyAttempts(outcomes, n) == {i \in 1..n : Truthy(outcomes[i])}

Min(S) == CHOOSE m \in S : \A k \in S : m <= k

\* C29: retry calls func at most `retries` times, stops at the first truthy
\* return and returns it, counts a raise and a falsy return as failures,
\* returns False after `retries` failures, and sleeps only between attempts.
C29_RetryContract ==
    retry_call.done =>
        LET n     == retry_call.retries
            ev    == retry_call.events
            calls == Count(ev, "call")
            good  == TruthyAttempts(retry_call.outcomes, n)
        IN  /\ calls <= n
            /\ good # {} => /\ calls = Min(good)
                            /\ retry_call.result = retry_call.outcomes[Min(good)]
            /\ good = {} => /\ calls = n
                            /\ retry_call.result = "False"
            /\ Count(ev, "sleep") = IF calls = 0 THEN 0 ELSE calls - 1
            /\ \A i \in 1..Len(ev) :
                  ev[i] = "sleep" => /\ i > 1 /\ ev[i - 1] = "call"
                                     /\ i < Len(ev) /\ ev[i + 1] = "call"

\* Three attempts that raise, return None and raise: False, two sleeps.
C29_Witness ==
    /\ retry_call.done
    /\ retry_call.retries = 3
    /\ SubSeq(retry_call.outcomes, 1, 3) = <<"raise", "None", "raise">>
    /\ retry_call.result = "False"
    /\ retry_call.events = <<"call", "sleep", "call", "sleep", "call">>

----------------------------------------------------------------------------
\* utils/slack_wrapper.py: SlackClientWrapper._func_with_retries and
\* send_message.  A call of chat_postMessage raises or returns a response;
\* a response carries the message timestamp at its top level, under
\* "message", or in both places.

Responses == {[kind |-> "response", ts |-> "t1", message_ts |-> None],
              [kind |-> "response", ts |-> None, message_ts |-> "t2"],
              [kind |-> "response", ts |-> "t3", message_ts |-> "t3"]}

\* The call raised SlackApiError or another Exception.
Raised == [kind |-> "raise", ts |-> None, message_ts |-> None]

\* The value None where a response is expected.
NoResponse == [kind |-> "None", ts |-> None, message_ts |-> None]

ApiOutcomes == {Raised} \cup Responses

WrapperStart == [calls |-> 0, response |-> NoResponse]

\* Faulty variant: range(1, self.retries) makes one attempt too few.
RECURSIVE FuncWithRetriesLoop_OneFewer(_, _, _, _)
FuncWithRetriesLoop_OneFewer(outcomes, retries, attempt, fr) ==
    IF attempt >= retries
    THEN [fr EXCEPT !.response = NoResponse]
    ELSE IF outcomes[attempt] # Raised
    THEN [calls |-> fr.calls + 1, response |-> outcomes[attempt]]
    ELSE FuncWithRetriesLoop_OneFewer(outcomes, retries, attempt + 1,
                                      [fr EXCEPT !.calls = @ + 1])

\* for attempt in range(1, self.retries + 1): try: return func(**payload)
RECURSIVE FuncWithRetriesLoop(_, _, _, _)
FuncWithRetriesLoop(outcomes, retries, attempt, fr) ==
    IF attempt > retries
    THEN [fr EXCEPT !.response = NoResponse]
    ELSE IF outcomes[attempt] # Raised
    THEN [calls |-> fr.calls + 1, response |-> outcomes[attempt]]
    ELSE FuncWithRetriesLoop(outcomes, retries, attempt + 1,
                             [fr EXCEPT !.calls = @ + 1])

func_with_retries(outcomes, retries) ==
    FuncWithRetriesLoop(outcomes, retries, 1, WrapperStart)

\* response.get("ts") or response.get("message", {}).get("ts")
TsOf(response) == IF response.ts # None THEN response.ts ELSE response.message_ts

send_message(outcomes, retries) ==
    LET r == func_with_retries(outcomes, retries) IN
    [calls |-> r.calls, response |-> r.response,
     ts |-> IF r.response # NoResponse THEN TsOf(r.response) ELSE None]

WrapperInit ==
    /\ StoreIdle
    /\ MonitorIdle
    /\ TrackerIdle
    /\ FilesIdle
    /\ retry_call = NotCalled
    /\ scan_call = NotCalled
    /\ \E retries \in 0..MaxRetries :
         \E outcomes \in SeqsOfLen(ApiOutcomes, MaxRetries) :
             wrapper_call = [done |-> FALSE, outcomes |-> outcomes, retries |-> retries]

SendMessageCall ==
    /\ ~wrapper_call.done
    /\ LET r == send_message(wrapper_call.outcomes, wrapper_call.retries) IN
       wrapper_call' = [done |-> TRUE, outcomes |-> wrapper_call.outcomes,
                        retries |-> wrapper_call.retries,
                        calls |-> r.calls, response |-> r.response, ts |-> r.ts]
    /\ UNCHANGED <<besideHelpers, retry_call, scan_call>>

WrapperSpec == WrapperInit /\ [][SendMessageCall]_vars

\* The attempts, among the first n, on which the API call does not raise.
Answered(outcomes, n) == {i \in 1..n : outcomes[i] # Raised}

\* C30: _func_with_retries calls the API function at most `retries` times,
\* returns the response of the first call that does not raise and None after
\* `retries` failed calls; send_message returns None exactly when every
\* attempt failed and the timestamp of that response otherwise.
C30_WrapperContract ==
    wrapper_call.done =>
        LET n  == wrapper_call.retries
            ok == Answered(wrapper_call.outcomes, n)
        IN  /\ wrapper_call.calls <= n
            /\ ok # {} =>
                  /\ wrapper_call.calls = Min(ok)
                  /\ wrapper_call.response = wrapper_call.outcomes[Min(ok)]
                  /\ wrapper_call.ts \in {"t1", "t2", "t3"}
                  /\ wrapper_call.ts \in {wrapper_call.response.ts,
                                          wrapper_call.response.message_ts}
            /\ ok = {} =>
                  /\ wrapper_call.calls = n
                  /\ wrapper_call.response = NoResponse
            /\ wrapper_call.ts = None <=> ok = {}

\* Two calls raise and the third answers with the timestamp under "message".
C30_Witness ==
    /\ wrapper_call.done
    /\ wrapper_call.retries = 3
    /\ wrapper_call.calls = 3
    /\ wrapper_call.response = [kind |-> "response", ts |-> None, message_ts |-> "t2"]
    /\ wrapper_call.ts = "t2"

----------------------------------------------------------------------------
\* process_scan.get_active_scripts(keywords).
\* An argument of a command line is described by what the scan tests on it:
\* whether a keyword occurs in it, whether it ends in .py, whether it names a
\* file on disk, and the basename without extension.

\* Most arguments after the executable in a command line explored.
MaxArgs == 2

\* An interpreter flag, a keyword argument, two scripts on disk and a
\* script that is not on disk.
Arguments ==
    {[has_keyword |-> FALSE, ends_py |-> FALSE, is_file |-> FALSE, stem |-> "-u"],
     [has_keyword |-> TRUE,  ends_py |-> FALSE, is_file |-> FALSE, stem |-> "debugpy"],
     [has_keyword |-> FALSE, ends_py |-> TRUE,  is_file |-> TRUE,  stem |-> "x"],
     [has_keyword |-> FALSE, ends_py |-> TRUE,  is_file |-> TRUE,  stem |-> "y"],
     [has_keyword |-> FALSE, ends_py |-> TRUE,  is_file |-> FALSE, stem |-> "q"]}

ArgLists == UNION {SeqsOfLen(Arguments, n) : n \in 0..MaxArgs}

\* A process: whether "python" is in the basename of cmd[0], and cmd[1:].
\* A process without a command line has python = FALSE and no arguments.
Processes ==
    {[python |-> TRUE, args |-> a] : a \in ArgLists} \cup {[python |-> FALSE, args |-> <<>>]}

\* for arg in cmd[1:]: the names the process adds to `scripts`.
RECURSIVE ArgLoop(_, _)
ArgLoop(args, i) ==
    IF i > Len(args) THEN {}
    ELSE IF args[i].has_keyword THEN {}
    ELSE IF args[i].ends_py /\ args[i].is_file THEN {args[i].stem}
    ELSE ArgLoop(args, i + 1)

ScriptsOf(proc) == IF ~proc.python THEN {} ELSE ArgLoop(proc.args, 1)

get_active_scripts(procs) == UNION {ScriptsOf(procs[i]) : i \in 1..Len(procs)}

ScanInit ==
    /\ StoreIdle
    /\ MonitorIdle
    /\ TrackerIdle
    /\ FilesIdle
    /\ retry_call = NotCalled
    /\ wrapper_call = NotCalled
    /\ \E p1, p2 \in Processes :
         scan_call = [done |-> FALSE, procs |-> <<p1, p2>>]

GetActiveScriptsCall ==
    /\ ~scan_call.done
    /\ scan_call' = [done |-> TRUE, procs |-> scan_call.procs,
                     scripts |-> get_active_scripts(scan_call.procs)]
    /\ UNCHANGED <<besideHelpers, retry_call, wrapper_call>>

ScanSpec == ScanInit /\ [][GetActiveScriptsCall]_vars

HasKeyword(proc) == \E i \in 1..Len(proc.args) : proc.args[i].has_keyword

\* The .py arguments of a process that exist on disk, by position.
ScriptArgs(proc) == {i \in 1..Len(proc.args) : proc.args[i].ends_py /\ proc.args[i].is_file}

\* C28: a Python process with a keyword in any argument contributes no
\* name; every other Python process contributes the stem of its first .py
\* argument that exists on disk, and nothing else.  Stated for the second
\* process when the first one is not a Python process.
C28_ScanResult ==
    (scan_call.done /\ ~scan_call.procs[1].python /\ scan_call.procs[2].python) =>
        LET proc == scan_call.procs[2] IN
        /\ HasKeyword(proc) => scan_call.scripts = {}
        /\ (~HasKeyword(proc) /\ ScriptArgs(proc) # {}) =>
              scan_call.scripts = {proc.args[Min(ScriptArgs(proc))].stem}
        /\ (~HasKeyword(proc) /\ ScriptArgs(proc) = {}) => scan_call.scripts = {}

----------------------------------------------------------------------------
\* slack_messager.py: the remote monitor's main thread and its signal
\* handler.  pc names the statement the main thread is about to run:
\* "post" (lines 66-80), "head" (87), "scan" (89), "update" (92),
\* "rollover" (95), "build" (98-100), "push" (101-106), "dev_check"
\* (109-111), "sleep" (113), "except" (115-116), "finally" (118-136),
\* "done" (the script has ended) and "exit1" (sys.exit(1) at line 80).

\* Most cycles of the main loop explored.
MaxCycles == 2

\* The attempts of the initial post: range(1, 4).
PostAttempts == 3

\* The timestamp Slack gives the message posted by the n-th attempt.
TsOfAttempt(n) == <<"ts1", "ts2", "ts3">>[n]

emoji_map(status) ==
    CASE status = "green"  -> ":large_green_square:"
      [] status = "red"    -> ":large_red_square:"
      [] status = "orange" -> ":large_orange_square:"
      [] OTHER             -> ":black_large_square:"

\* Faulty variant: the slice takes the newest max_blocks entries.
Visible_NewestShown(state, max_blocks) ==
    SubSeq(state,
           IF Len(state) < max_blocks THEN 1 ELSE Len(state) - max_blocks + 1,
           Len(state))

\* list(active_block_state.items())[:max_blocks], max_blocks >= 0
Visible(state, max_blocks) ==
    SubSeq(state, 1, IF Len(state) < max_blocks THEN Len(state) ELSE max_blocks)

\* build_slack_blocks: every block is a pair of strings.  The elapsed time
\* of a section is left out: it is text derived from block_start_time.
build_slack_blocks(state, max_blocks) ==
    LET visible == Visible(state, max_blocks) IN
    << <<"header", "status_header">>, <<"divider", "">> >>
      \o [i \in 1..Len(visible) |-> <<emoji_map(visible[i][2]), visible[i][1]>>]
      \o (IF visible = <<>> THEN << <<":zzz:", "No scripts currently running">> >> ELSE <<>>)

\* Faulty variant: a post that succeeded is not noticed until the loop ends.
InitialPostNext_NoBreak(t, n) ==
    IF n < PostAttempts THEN "post" ELSE IF t # None THEN "head" ELSE "exit1"

\* Where the main thread goes after the n-th attempt returned t.
InitialPostNext(t, n) ==
    IF t # None THEN "head" ELSE IF n < PostAttempts THEN "post" ELSE "exit1"

\* Faulty variant: the payload is built before the overflow is trimmed.
StepAfter_BuildsBeforeRollover(step) ==
    CASE step = "scan"     -> "update"
      [] step = "update"   -> "build"
      [] step = "build"    -> "rollover"
      [] step = "rollover" -> "push"
      [] step = "push"     -> "dev_check"

\* The statement that follows a step of the cycle when it does not raise.
StepAfter(step) ==
    CASE step = "scan"     -> "update"
      [] step = "update"   -> "rollover"
      [] step = "rollover" -> "build"
      [] step = "build"    -> "push"
      [] step = "push"     -> "dev_check"

\* Faulty variant: the dev-mode break leaves the script at once.
AfterCycle_BreakSkipsFinally(is_prod) == IF ~is_prod THEN "done" ELSE "sleep"

\* if not prod_mode(): break
AfterCycle(is_prod) == IF ~is_prod THEN "finally" ELSE "sleep"

\* Faulty variant: the signal interrupts the cycle, as SIGINT does when no
\* handler is installed.
request_shutdown_Interrupts(at) ==
    [shutdown_requested |-> TRUE,
     pc |-> IF at \in {"scan", "update", "rollover", "build", "push", "dev_check", "sleep"}
            THEN "finally" ELSE at]

\* _request_shutdown(signum, frame), delivered while the main thread is at `at`.
request_shutdown(at) == [shutdown_requested |-> TRUE, pc |-> at]

EmptyStore == [active_block_state |-> <<>>, block_start_time |-> <<>>,
               script_history |-> <<>>]

\* One call on the Slack wrapper; signalled tells whether _shutdown_requested
\* was set when it was made, result is what send_message returned.
SlackCall(op, message_ts, text, result) ==
    [op |-> op, message_ts |-> message_ts, text |-> text, result |-> result,
     signalled |-> shutdown_requested]

\* Two scripts on the host and a dashboard of one line, so that the
\* rollover of a cycle has something to evict.
MonitorInit ==
    /\ scripts = {"x", "y"}
    /\ active_block_state = <<>>
    /\ block_start_time = <<>>
    /\ script_history = <<>>
    /\ cycle_time = 1
    /\ config_max_blocks = 1
    /\ clock = 0
    /\ call = NoCall
    /\ stopped_at = <<>>
    /\ HelpersIdle
    /\ FilesIdle
    /\ TrackerIdle
    /\ pc = "post"
    /\ shutdown_requested = FALSE
    /\ prod \in BOOLEAN
    /\ ts = None
    /\ post_attempt = 0
    /\ scanned = {}
    /\ blocks = build_slack_blocks(<<>>, config_max_blocks)
    /\ slack_log = <<>>
    /\ pushed = <<>>
    /\ cycle = [pre |-> EmptyStore, steps |-> <<>>]

\* One pass of `for attempt in range(1, 4)` and, after the last one, the
\* test of line 78.
PostAttempt ==
    /\ pc = "post"
    /\ \E ok \in BOOLEAN :
         LET n == post_attempt + 1
             t == IF ok THEN TsOfAttempt(n) ELSE None
         IN  /\ post_attempt' = n
             /\ ts' = t
             /\ slack_log' = Append(slack_log, SlackCall("send_message", None, "startup", t))
             /\ pc' = InitialPostNext(t, n)
    /\ UNCHANGED <<storeVars, besideMonitor, shutdown_requested, prod, scanned, blocks,
                   pushed, cycle>>

\* while not _shutdown_requested
LoopHead ==
    /\ pc = "head"
    /\ shutdown_requested \/ clock < MaxCycles
    /\ pc' = IF shutdown_requested THEN "finally" ELSE "scan"
    /\ UNCHANGED <<storeVars, besideMonitor, shutdown_requested, prod, ts, post_attempt,
                   scanned, blocks, slack_log, pushed, cycle>>

Scan ==
    /\ pc = "scan"
    /\ \E found \in SUBSET scripts : scanned' = found
    /\ cycle' = [pre |-> Store, steps |-> <<"scan">>]
    /\ pc' = StepAfter("scan")
    /\ UNCHANGED <<storeVars, besideMonitor, shutdown_requested, prod, ts, post_attempt,
                   blocks, slack_log, pushed>>

Update ==
    /\ pc = "update"
    /\ \E order \in IterationOrders(scanned) : UpdateLiveStatusStep(scanned, order, clock)
    /\ cycle' = [cycle EXCEPT !.steps = Append(@, "update")]
    /\ pc' = StepAfter("update")
    /\ UNCHANGED <<besideMonitor, shutdown_requested, prod, ts, post_attempt, scanned,
                   blocks, slack_log, pushed>>

Rollover ==
    /\ pc = "rollover"
    /\ RolloverBlocksStep(config_max_blocks)
    /\ cycle' = IF call'.raised THEN cycle ELSE [cycle EXCEPT !.steps = Append(@, "rollover")]
    /\ pc' = IF call'.raised THEN "except" ELSE StepAfter("rollover")
    /\ UNCHANGED <<besideMonitor, shutdown_requested, prod, ts, post_attempt, scanned,
                   blocks, slack_log, pushed>>

Build ==
    /\ pc = "build"
    /\ blocks' = build_slack_blocks(active_block_state, config_max_blocks)
    /\ cycle' = [cycle EXCEPT !.steps = Append(@, "build")]
    /\ pc' = StepAfter("build")
    /\ UNCHANGED <<storeVars, besideMonitor, shutdown_requested, prod, ts, post_attempt,
                   scanned, slack_log, pushed>>

Push ==
    /\ pc = "push"
    /\ pushed' = [message_ts |-> ts, text |-> "Remote monitor", blocks |-> blocks]
    /\ slack_log' = Append(slack_log, SlackCall("update_message", ts, "Remote monitor", None))
    /\ cycle' = [cycle EXCEPT !.steps = Append(@, "push")]
    /\ pc' = StepAfter("push")
    /\ UNCHANGED <<storeVars, besideMonitor, shutdown_requested, prod, ts, post_attempt,
                   scanned, blocks>>

DevCheck ==
    /\ pc = "dev_check"
    /\ pc' = AfterCycle(prod)
    /\ UNCHANGED <<storeVars, besideMonitor, shutdown_requested, prod, ts, post_attempt,
                   scanned, blocks, slack_log, pushed, cycle>>

\* time.sleep(Config.refresh_rate)
Sleep ==
    /\ pc = "sleep"
    /\ pc' = "head"
    /\ UNCHANGED <<storeVars, besideMonitor, shutdown_requested, prod, ts, post_attempt,
                   scanned, blocks, slack_log, pushed, cycle>>

\* A step of the cycle raises an Exception before it has changed anything.
\* update_message cannot: the wrapper catches every Exception.
Raise ==
    /\ pc \in {"scan", "update", "rollover", "build"}
    /\ pc' = "except"
    /\ UNCHANGED <<storeVars, besideMonitor, shutdown_requested, prod, ts, post_attempt,
                   scanned, blocks, slack_log, pushed, cycle>>

\* except Exception: logger.exception(...)
Except ==
    /\ pc = "except"
    /\ pc' = "finally"
    /\ UNCHANGED <<storeVars, besideMonitor, shutdown_requested, prod, ts, post_attempt,
                   scanned, blocks, slack_log, pushed, cycle>>

\* finally: the offline update.
Finally ==
    /\ pc = "finally"
    /\ pushed' = [message_ts |-> ts, text |-> "shutdown_message",
                  blocks |-> << <<"header", "status_header">>, <<"divider", "">>,
                                <<":red_circle:", "Monitor offline">> >>]
    /\ slack_log' = Append(slack_log, SlackCall("update_message", ts, "shutdown_message", None))
    /\ pc' = "done"
    /\ UNCHANGED <<storeVars, besideMonitor, shutdown_requested, prod, ts, post_attempt,
                   scanned, blocks, cycle>>

\* SIGTERM or SIGINT arrives while the script runs.
Signal ==
    /\ pc \notin {"idle", "done", "exit1"}
    /\ ~shutdown_requested
    /\ shutdown_requested' = request_shutdown(pc).shutdown_requested
    /\ pc' = request_shutdown(pc).pc
    /\ UNCHANGED <<storeVars, besideMonitor, prod, ts, post_attempt, scanned, blocks,
                   slack_log, pushed, cycle>>

MainThread ==
    \/ PostAttempt
    \/ LoopHead
    \/ Scan
    \/ Update
    \/ Rollover
    \/ Build
    \/ Push
    \/ DevCheck
    \/ Sleep
    \/ Raise
    \/ Except
    \/ Finally

MonitorNext == MainThread \/ Signal

MonitorSpec == MonitorInit /\ [][MonitorNext]_vars

\* The main thread keeps running: every statement of the script terminates.
MonitorFair == MonitorSpec /\ WF_vars(MainThread)

CycleSteps == <<"scan", "update", "rollover", "build", "push">>

\* The calls of the log that satisfy Test, as positions.
Calls(Test(_)) == {i \in 1..Len(slack_log) : Test(slack_log[i])}

IsSend(c) == c.op = "send_message"

IsDashboardUpdate(c) == c.op = "update_message" /\ c.text = "Remote monitor"

IsOfflineUpdate(c) == c.op = "update_message" /\ c.text = "shutdown_message"

\* C21: the steps of a cycle run in the order scan, update_live_status,
\* rollover_blocks, build_slack_blocks, update_message; a scan starts only
\* after the update_message of the cycle before it; and the payload pushed
\* in a cycle is built from the store as update_live_status followed by
\* rollover_blocks leave it for the snapshot of that cycle.
C21_CycleOrder ==
    /\ [](/\ IsPrefix(cycle.steps, CycleSteps)
          /\ (cycle.steps = CycleSteps /\ IsDashboardUpdate(slack_log[Len(slack_log)])) =>
                /\ pushed.blocks = build_slack_blocks(active_block_state, config_max_blocks)
                /\ \E order \in IterationOrders(scanned) :
                      LET r == CycleResult(cycle.pre, order, scanned, cycle_time,
                                           clock - 1, config_max_blocks)
                      IN  /\ r.active_block_state = Range(active_block_state)
                          /\ r.block_start_time = block_start_time
                          /\ r.script_history = script_history)
    /\ [][(pc = "scan" /\ cycle'.steps = <<"scan">> /\ cycle.steps # <<>>) =>
             cycle.steps = CycleSteps]_vars

\* A payload has been pushed in a cycle whose rollover evicted an entry.
C21_Witness ==
    /\ cycle.steps = CycleSteps
    /\ call.op = "rollover_blocks"
    /\ call.evicted # <<>>
    /\ Len(pushed.blocks) = 3
    /\ pushed.blocks[3][2] \in {"x", "y"}

\* C22: update_live_status and rollover_blocks are total: from every
\* reachable store, for every snapshot, every cycle_time >= 0 and every
\* max_blocks >= 0, the call returns without raising, also when it removes
\* entries while it walks the store.
C22_Total ==
    (call.op # "none" /\ call.max_blocks >= 0) => ~call.raised

\* update_live_status removed the first entry of the store by linger expiry
\* and went on to flag a later entry red.
C22_Witness ==
    /\ IsUpdate
    /\ ~call.raised
    /\ Len(PreState) >= 2
    /\ PreState[1][1] \notin KeySet(active_block_state)
    /\ \E n \in Range(PreGreen) : Get(active_block_state, n) = "red"

\* rollover_blocks emptied a store of several entries without raising.
C22_RolloverWitness ==
    /\ IsRollover
    /\ ~call.raised
    /\ call.max_blocks = 0
    /\ Len(call.evicted) >= 2
    /\ active_block_state = <<>>

\* C23: however the main loop is left, one offline update_message follows
\* on the dashboard's timestamp and no call on Slack comes after it.
C23_OfflineOnceAndLast ==
    /\ [](/\ Cardinality(Calls(IsOfflineUpdate)) <= 1
          /\ \A i \in Calls(IsOfflineUpdate) :
                /\ i = Len(slack_log)
                /\ slack_log[i].message_ts = ts
                /\ ts # None
          /\ pc = "done" <=> Calls(IsOfflineUpdate) # {})
    /\ (pc \in {"except", "finally"}) ~> (pc = "done")

\* The loop was left by an exception in its second cycle, after a dashboard
\* update, and the offline update has been sent.
C23_Witness ==
    /\ pc = "done"
    /\ Len(cycle.steps) \in 1..3
    /\ Calls(IsDashboardUpdate) # {}
    /\ ~shutdown_requested
    /\ IsOfflineUpdate(slack_log[Len(slack_log)])

CyclePcs == {"scan", "update", "rollover", "build", "push", "dev_check", "sleep"}

\* C24: a signal only sets _shutdown_requested: the store and the main
\* thread's position are untouched; at most one dashboard update is pushed
\* with the flag set; the loop head then leaves the loop; and a signal in a
\* cycle leads to the offline update.
C24_SignalFinishesCycle ==
    /\ [][(~shutdown_requested /\ shutdown_requested') =>
             /\ pc' = pc
             /\ UNCHANGED <<storeVars, ts, scanned, blocks, slack_log, pushed, cycle>>]_vars
    /\ [][(shutdown_requested /\ pc = "head" /\ pc' # pc) => pc' = "finally"]_vars
    /\ [](Cardinality({i \in Calls(IsDashboardUpdate) : slack_log[i].signalled}) <= 1)
    /\ (shutdown_requested /\ pc \in CyclePcs) ~> (pc = "done" /\ Calls(IsOfflineUpdate) # {})

\* The signal came before the push of a cycle: that push was still made and
\* the offline update followed it.
C24_Witness ==
    /\ pc = "done"
    /\ shutdown_requested
    /\ prod
    /\ cycle.steps = CycleSteps
    /\ Len(slack_log) >= 3
    /\ IsDashboardUpdate(slack_log[Len(slack_log) - 1])
    /\ slack_log[Len(slack_log) - 1].signalled

\* C25: the initial post is attempted at most 3 times and stops at the
\* first attempt that returns a timestamp; after 3 failures the script
\* exits with status 1 and never scans, reconciles or updates a message;
\* otherwise every update_message uses the timestamp of that post.
C25_InitialPost ==
    /\ Cardinality(Calls(IsSend)) <= 3
    /\ \A i \in Calls(IsSend) :
          /\ i <= 3
          /\ i < Cardinality(Calls(IsSend)) => slack_log[i].result = None
    /\ pc = "exit1" =>
          /\ Len(slack_log) = 3
          /\ \A i \in 1..3 : IsSend(slack_log[i]) /\ slack_log[i].result = None
          /\ cycle.steps = <<>>
          /\ call = NoCall
    /\ \A i \in 1..Len(slack_log) :
          slack_log[i].op = "update_message" =>
              /\ slack_log[i].message_ts # None
              /\ slack_log[i].message_ts = slack_log[Cardinality(Calls(IsSend))].result

\* The first post failed, the second succeeded; a dashboard update and the
\* offline update used its timestamp.
C25_Witness ==
    /\ pc = "done"
    /\ Cardinality(Calls(IsSend)) = 2
    /\ ts = "ts2"
    /\ Calls(IsDashboardUpdate) # {}
    /\ \A i \in Calls(IsDashboardUpdate) \cup Calls(IsOfflineUpdate) :
          slack_log[i].message_ts = "ts2"

\* All three posts failed and the script has exited with status 1.
C25_ExitWitness == pc = "exit1" /\ post_attempt = 3 /\ ts = None

----------------------------------------------------------------------------
\* googledrive_upload/UploadToDrive.py: one cycle of the upload loop.

\* Most cycles of a file poller explored.
MaxPolls == 2

\* The files that can lie in Config.network_dir.
UploadFiles == {"a.csv", "B.PDF", "notes.txt"}

\* f.lower().endswith((".csv", ".pdf"))
Uploadable(f) == f \in {"a.csv", "B.PDF"}

\* What the three attempts of a retried helper do: it succeeds at once,
\* it succeeds at the third attempt, it never succeeds.
TryPlans == {<<"True", "None", "None">>, <<"None", "raise", "True">>,
             <<"None", "raise", "None">>}

CycleStart == [events |-> <<>>, uploaded_files |-> <<>>, moved |-> {}, drive |-> drive]

\* A name in the Drive folder: the base name of the file, and the counter
\* of f"{name}_({counter}){ext}", 0 standing for the base name as it is.
DriveName(base_name, counter) == <<base_name, counter>>

\* Faulty variant: the upload takes the base name whether or not it exists.
UniqueName_KeepsBaseName(d, base_name) == DriveName(base_name, 0)

\* while _name_exists(new_name): new_name = f"{name}_({counter}){ext}"; counter += 1
RECURSIVE UniqueNameLoop(_, _, _, _)
UniqueNameLoop(d, base_name, new_name, counter) ==
    IF new_name \in d
    THEN UniqueNameLoop(d, base_name, DriveName(base_name, counter), counter + 1)
    ELSE new_name

\* The name upload_file_to_google creates the file under.
UniqueName(d, base_name) == UniqueNameLoop(d, base_name, DriveName(base_name, 0), 1)

\* The Drive folder after a successful upload_file_to_google of the file.
Uploaded(d, base_name) == d \cup {UniqueName(d, base_name)}

Attempted(file_name, op, result) == [file |-> file_name, op |-> op, ok |-> Truthy(result)]

\* Faulty variant: the name is reported once the upload succeeded, whether
\* or not the move did.
ProcessFile_ReportsBeforeMove(fr, file_name, plan) ==
    LET up  == retry(plan.upload, 3)
        fr1 == [fr EXCEPT !.events = Append(@, Attempted(file_name, "upload", up.result)),
                          !.drive = IF Truthy(up.result) THEN Uploaded(@, file_name) ELSE @]
    IN  IF Truthy(up.result)
        THEN LET mv  == retry(plan.move, 3)
                 fr2 == [fr1 EXCEPT !.events = Append(@, Attempted(file_name, "move", mv.result)),
                                    !.uploaded_files = Append(@, file_name)]
             IN  IF Truthy(mv.result)
                 THEN [fr2 EXCEPT !.moved = @ \cup {file_name}]
                 ELSE fr2
        ELSE fr1

\* The body of `for file_name in files`.
ProcessFile(fr, file_name, plan) ==
    LET up  == retry(plan.upload, 3)
        fr1 == [fr EXCEPT !.events = Append(@, Attempted(file_name, "upload", up.result)),
                          !.drive = IF Truthy(up.result) THEN Uploaded(@, file_name) ELSE @]
    IN  IF Truthy(up.result)
        THEN LET mv  == retry(plan.move, 3)
                 fr2 == [fr1 EXCEPT !.events = Append(@, Attempted(file_name, "move", mv.result))]
             IN  IF Truthy(mv.result)
                 THEN [fr2 EXCEPT !.uploaded_files = Append(@, file_name),
                                  !.moved = @ \cup {file_name}]
                 ELSE fr2
        ELSE fr1

RECURSIVE ProcessFiles(_, _, _)
ProcessFiles(fr, files, plans) ==
    IF files = <<>> THEN fr
    ELSE ProcessFiles(ProcessFile(fr, Head(files), plans[Head(files)]), Tail(files), plans)

\* if uploaded_files: slack.send_message(...)
Summary(uploaded_files) ==
    [sent |-> uploaded_files # <<>>, names |-> uploaded_files]

UploaderInit ==
    /\ StoreIdle
    /\ HelpersIdle
    /\ MonitorIdle
    /\ TrackerIdle
    /\ network_dir \in SUBSET UploadFiles
    /\ uploader_cycle = NoCycle
    /\ update_dir = {}
    /\ instrument_cycle = NoCycle
    /\ unsent = {}
    /\ drive = {}
    /\ processed_dir = {}

\* One pass of the loop body: list the directory, process each file, post
\* the summary.  os.listdir gives the names in an arbitrary order.
UploaderCycle ==
    /\ uploader_cycle.n < MaxPolls
    /\ \E files \in IterationOrders({f \in network_dir : Uploadable(f)}) :
         \E plans \in [Range(files) -> [upload : TryPlans, move : TryPlans]] :
             LET r == ProcessFiles(CycleStart, files, plans) IN
             /\ uploader_cycle' = [n |-> uploader_cycle.n + 1, files |-> files,
                                   events |-> r.events,
                                   uploaded_files |-> r.uploaded_files,
                                   summary |-> Summary(r.uploaded_files)]
             /\ network_dir' = network_dir \ r.moved
             /\ drive' = r.drive
             /\ processed_dir' = processed_dir \cup r.moved
    /\ UNCHANGED <<storeVars, helperVars, monitorVars, trackerVars, update_dir, instrument_cycle, unsent>>

\* os.listdir raises: the cycle is skipped.
ListDirFails ==
    /\ uploader_cycle.n < MaxPolls
    /\ uploader_cycle' = [n |-> uploader_cycle.n + 1, files |-> <<>>, events |-> <<>>,
                          uploaded_files |-> <<>>,
                          summary |-> [sent |-> FALSE, names |-> <<>>]]
    /\ UNCHANGED <<storeVars, helperVars, monitorVars, trackerVars, network_dir, update_dir,
                   instrument_cycle, unsent, drive, processed_dir>>

\* An instrument or a user drops a file into the directory.
FileArrives ==
    /\ \E f \in UploadFiles \ network_dir : network_dir' = network_dir \cup {f}
    /\ UNCHANGED <<storeVars, helperVars, monitorVars, trackerVars, uploader_cycle, update_dir,
                   instrument_cycle, unsent, drive, processed_dir>>

UploaderNext == UploaderCycle \/ ListDirFails \/ FileArrives

UploaderSpec == UploaderInit /\ [][UploaderNext]_vars

\* Whether the cycle attempted op on file f with the given outcome.
Did(f, op, ok) ==
    \E i \in 1..Len(uploader_cycle.events) :
        uploader_cycle.events[i] = [file |-> f, op |-> op, ok |-> ok]

\* C26: in a cycle of the uploader a move is attempted only after the upload
\* of that file succeeded in the cycle; a name is in the summary exactly if
\* its upload and its move both succeeded; the summary is sent exactly if
\* some file had both succeed.
C26_UploadThenMove ==
    uploader_cycle.n >= 1 =>
        LET ev == uploader_cycle.events IN
        /\ \A i \in 1..Len(ev) :
              ev[i].op = "move" =>
                  \E j \in 1..(i - 1) :
                      ev[j] = [file |-> ev[i].file, op |-> "upload", ok |-> TRUE]
        /\ \A f \in Range(uploader_cycle.files) :
              f \in Range(uploader_cycle.summary.names)
                  <=> (Did(f, "upload", TRUE) /\ Did(f, "move", TRUE))
        /\ Range(uploader_cycle.summary.names) \subseteq Range(uploader_cycle.files)
        /\ uploader_cycle.summary.sent
              <=> \E f \in Range(uploader_cycle.files) :
                     Did(f, "upload", TRUE) /\ Did(f, "move", TRUE)

\* Both files were uploaded, only a.csv could be moved: the summary names
\* a.csv alone and B.PDF stays in the directory.
C26_Witness ==
    /\ uploader_cycle.n >= 1
    /\ Range(uploader_cycle.files) = {"a.csv", "B.PDF"}
    /\ Did("B.PDF", "upload", TRUE)
    /\ Did("B.PDF", "move", FALSE)
    /\ uploader_cycle.summary = [sent |-> TRUE, names |-> <<"a.csv">>]
    /\ "B.PDF" \in network_dir
    /\ "a.csv" \notin network_dir

----------------------------------------------------------------------------
\* instrument_state_messager/instrument_messager.py: one cycle of the loop.

\* The files that can lie in Config.network_dir.
UpdateFiles == {"u1.txt", "u2.txt", "readme.md"}

\* Config.network_dir.glob("*.txt")
IsUpdateFile(f) == f \in {"u1.txt", "u2.txt"}

\* What the attempts of chat_postMessage do for one send_message call: an
\* answer at once, an answer at the third attempt, no answer.
SendPlans == {<<[kind |-> "response", ts |-> "t1", message_ts |-> None], Raised, Raised>>,
              <<Raised, Raised, [kind |-> "response", ts |-> None, message_ts |-> "t2"]>>,
              <<Raised, Raised, Raised>>}

MessagerStart == [events |-> <<>>, removed |-> {}, sent |-> {}, failed |-> {}]

\* Faulty variant: the file is removed whatever send_message returned.
ProcessUpdate_RemovesAnyway(fr, file_path, plan) ==
    LET sent_ts == send_message(plan.send, 3).ts
        fr1 == [fr EXCEPT !.events = Append(@, [file |-> file_path, op |-> "send",
                                                 result |-> sent_ts]),
                          !.sent = IF sent_ts # None THEN @ \cup {file_path} ELSE @,
                          !.failed = IF sent_ts = None THEN @ \cup {file_path} ELSE @]
    IN  IF plan.remove_ok
        THEN [fr1 EXCEPT !.events = Append(@, [file |-> file_path, op |-> "remove",
                                                result |-> "ok"]),
                         !.removed = @ \cup {file_path}]
        ELSE [fr1 EXCEPT !.events = Append(@, [file |-> file_path, op |-> "remove",
                                                result |-> "OSError"])]

\* The body of `for file_path in files`: send, then os.remove if ts.
ProcessUpdate(fr, file_path, plan) ==
    LET sent_ts == send_message(plan.send, 3).ts
        fr1 == [fr EXCEPT !.events = Append(@, [file |-> file_path, op |-> "send",
                                                 result |-> sent_ts]),
                          !.sent = IF sent_ts # None THEN @ \cup {file_path} ELSE @,
                          !.failed = IF sent_ts = None THEN @ \cup {file_path} ELSE @]
    IN  IF sent_ts # None
        THEN IF plan.remove_ok
             THEN [fr1 EXCEPT !.events = Append(@, [file |-> file_path, op |-> "remove",
                                                     result |-> "ok"]),
                              !.removed = @ \cup {file_path}]
             ELSE [fr1 EXCEPT !.events = Append(@, [file |-> file_path, op |-> "remove",
                                                     result |-> "OSError"])]
        ELSE fr1

RECURSIVE ProcessUpdates(_, _, _)
ProcessUpdates(fr, files, plans) ==
    IF files = <<>> THEN fr
    ELSE ProcessUpdates(ProcessUpdate(fr, Head(files), plans[Head(files)]),
                        Tail(files), plans)

InstrumentInit ==
    /\ StoreIdle
    /\ HelpersIdle
    /\ MonitorIdle
    /\ TrackerIdle
    /\ network_dir = {}
    /\ uploader_cycle = NoCycle
    /\ update_dir \in SUBSET UpdateFiles
    /\ instrument_cycle = NoCycle
    /\ unsent = {}
    /\ drive = {}
    /\ processed_dir = {}

\* One pass of the loop body: glob the directory and process each file.
\* With no file the pass does nothing.
InstrumentCycle ==
    /\ instrument_cycle.n < MaxPolls
    /\ \E files \in IterationOrders({f \in update_dir : IsUpdateFile(f)}) :
         \E plans \in [Range(files) -> [send : SendPlans, remove_ok : BOOLEAN]] :
             LET r == ProcessUpdates(MessagerStart, files, plans) IN
             /\ instrument_cycle' = [n |-> instrument_cycle.n + 1, files |-> files,
                                     events |-> r.events]
             /\ update_dir' = update_dir \ r.removed
             /\ unsent' = (unsent \cup r.failed) \ r.sent
    /\ UNCHANGED <<storeVars, helperVars, monitorVars, trackerVars, network_dir, uploader_cycle, drive,
                   processed_dir>>

\* An instrument writes an update file.
UpdateWritten ==
    /\ \E f \in UpdateFiles \ update_dir : update_dir' = update_dir \cup {f}
    /\ UNCHANGED <<storeVars, helperVars, monitorVars, trackerVars, network_dir, uploader_cycle,
                   instrument_cycle, unsent, drive, processed_dir>>

InstrumentNext == InstrumentCycle \/ UpdateWritten

InstrumentSpec == InstrumentInit /\ [][InstrumentNext]_vars

\* C27: the instrument messager removes an update file only after
\* send_message returned a timestamp for it in the cycle; a file whose send
\* failed is still in the directory after the cycle, stays there, and is
\* listed by the next cycle.
C27_FailedSendKeepsFile ==
    /\ [](instrument_cycle.n >= 1 =>
            LET ev == instrument_cycle.events IN
            /\ \A i \in 1..Len(ev) :
                  ev[i].op = "remove" =>
                      \E j \in 1..(i - 1) :
                          /\ ev[j].file = ev[i].file
                          /\ ev[j].op = "send"
                          /\ ev[j].result # None
            /\ \A i \in 1..Len(ev) :
                  (ev[i].op = "send" /\ ev[i].result = None) => ev[i].file \in update_dir)
    /\ [](unsent \subseteq update_dir)
    /\ [][instrument_cycle'.n # instrument_cycle.n =>
             unsent \subseteq Range(instrument_cycle'.files)]_vars

\* The second cycle sent u1.txt and removed it, while the send for u2.txt
\* failed and u2.txt is kept in the directory.
C27_Witness ==
    /\ instrument_cycle.n = 2
    /\ "u2.txt" \in update_dir
    /\ "u1.txt" \in Range(instrument_cycle.files)
    /\ \E i \in 1..Len(instrument_cycle.events) :
          instrument_cycle.events[i] = [file |-> "u1.txt", op |-> "remove", result |-> "ok"]
    /\ "u1.txt" \notin update_dir
    /\ "u2.txt" \in unsent

\* C31: within one update_live_status call every since value written and
\* every activation timestamp appended equals the single instant now of the
\* call: a since that differs from its value before the call is now, a
\* history is either unchanged or extended by exactly now, and a name
\* stopped by the call has the same since as a name started by it.
C31_OneInstant ==
    IsUpdate =>
        /\ \A n \in DOMAIN block_start_time :
              (n \notin DOMAIN PreStart \/ block_start_time[n] # PreStart[n]) =>
                  block_start_time[n] = call.now
        /\ \A n \in DOMAIN script_history :
              \/ script_history[n] = PreHistoryOf(n)
              \/ script_history[n] = Append(PreHistoryOf(n), call.now)
        /\ \A s \in Range(PreGreen) \ call.currently_active :
           \A a \in call.currently_active \ Range(PreGreen) :
              (s \in DOMAIN block_start_time /\ a \in DOMAIN block_start_time) =>
                  block_start_time[s] = block_start_time[a]

\* One call stopped x and started y: both carry the call's instant, which
\* is later than the instant x was started at.
C31_Witness ==
    /\ IsUpdate
    /\ call.now >= 1
    /\ "x" \in Range(PreGreen) \ call.currently_active
    /\ "y" \in call.currently_active \ KeySet(PreState)
    /\ PreStart["x"] < call.now
    /\ Get(active_block_state, "x") = "red"
    /\ block_start_time["x"] = call.now
    /\ block_start_time["y"] = call.now
    /\ script_history["y"] = <<call.now>>

\* C32: after any sequence of update_live_status and rollover_blocks calls
\* every name in active_block_state has a non-empty activation history, and
\* for every green name block_start_time[name] is the last element of its
\* activation history.
C32_HistoryBacksStore ==
    \A n \in KeySet(active_block_state) :
        /\ n \in DOMAIN script_history
        /\ script_history[n] # <<>>
        /\ Get(active_block_state, n) = "green" =>
              /\ n \in DOMAIN block_start_time
              /\ block_start_time[n] = script_history[n][Len(script_history[n])]

\* After a rollover, x is green for the second time (history of two
\* activations, since equal to the later one) next to a red entry.
C32_Witness ==
    /\ IsRollover
    /\ Get(active_block_state, "x") = "green"
    /\ Len(script_history["x"]) = 2
    /\ block_start_time["x"] = script_history["x"][2]
    /\ \E n \in KeySet(active_block_state) : Get(active_block_state, n) = "red"

\* C33: update_live_status does not move an entry: the keys that were in
\* active_block_state before the call and are still in it keep their
\* relative order, so a red name that turns green again stays older than
\* every entry inserted after it, and every name the call inserts, a name
\* that was removed earlier and is seen again included, comes after all of
\* them.
C33_ReactivationKeepsRank ==
    IsUpdate =>
        LET post == KeySeq(active_block_state)
            kept == KeySet(PreState) \cap KeySet(active_block_state) IN
        /\ SelectSeq(post, LAMBDA k : k \in kept)
              = SelectSeq(KeySeq(PreState), LAMBDA k : k \in kept)
        /\ call.currently_active \cap Range(PreRed) \subseteq kept
        /\ \A n \in KeySet(active_block_state) \ KeySet(PreState) :
           \A k \in kept : PosIn(post, k) < PosIn(post, n)

\* x was inserted before y, went red and is green again: it is still the
\* first, that is the oldest, entry.
C33_Witness ==
    /\ IsUpdate
    /\ "x" \in call.currently_active \cap Range(PreRed)
    /\ KeySeq(PreState) = <<"x", "y">>
    /\ active_block_state = << <<"x", "green">>, <<"y", "green">> >>

\* x was in the store before y, was removed and is seen again: it is now
\* the last, that is the newest, entry.
C33_ReinsertedWitness ==
    /\ IsUpdate
    /\ "x" \notin KeySet(PreState)
    /\ PreHistoryOf("x") # <<>>
    /\ PreHistoryOf("y") # <<>>
    /\ PreHistoryOf("x")[1] < PreHistoryOf("y")[1]
    /\ KeySeq(active_block_state) = <<"y", "x">>

\* The names that are green in dict d.
GreenNames(d) == Range(KeysOfColour(d, "green"))

\* C34 as stated: in the poll loop, a name in the snapshots of two
\* consecutive cycles gets no new activation timestamp and keeps its since
\* in the second cycle, whatever max_blocks is.  The snapshot of the cycle
\* before is read off the store its update_live_status left, which is
\* call.pre of the rollover_blocks in between: its green names.
C34_RunningNeverRestamped ==
    [][(IsRollover /\ call'.op = "update_live_status") =>
          \A n \in GreenNames(PreState) \cap call'.currently_active :
              /\ n \in DOMAIN block_start_time'
              /\ block_start_time'[n] = PreStart[n]
              /\ script_history'[n] = PreHistory[n]]_vars

\* C34 amended: after update_live_status the green names are exactly the
\* names of its snapshot, and a name in the snapshots of two consecutive
\* cycles that rollover_blocks did not evict in between gets no new
\* activation timestamp and keeps its since in the second cycle.
C34_RunningRestampedOnlyAfterEviction ==
    /\ [](IsUpdate => GreenNames(active_block_state) = call.currently_active)
    /\ [][(IsRollover /\ call'.op = "update_live_status") =>
             \A n \in GreenNames(PreState) \cap call'.currently_active :
                 n \in KeySet(active_block_state) =>
                     /\ n \in DOMAIN block_start_time'
                     /\ block_start_time'[n] = PreStart[n]
                     /\ script_history'[n] = PreHistory[n]]_vars

\* x and y ran in two consecutive cycles: one of them survived the rollover
\* in between and still has its single activation at 0, the other was
\* evicted and has been inserted again with a second activation.
C34_Witness ==
    /\ IsUpdate
    /\ call.currently_active = {"x", "y"}
    /\ call.now >= 1
    /\ KeySet(PreState) \in {{"x"}, {"y"}}
    /\ \A n \in KeySet(PreState) :
          /\ Get(PreState, n) = "green"
          /\ script_history[n] = <<0>>
          /\ block_start_time[n] = 0
    /\ \A n \in {"x", "y"} \ KeySet(PreState) :
          /\ script_history[n] = <<0, call.now>>
          /\ block_start_time[n] = call.now

\* The copies of a file in the Drive folder.
Copies(d, base_name) == {n \in d : n[1] = base_name}

DidIn(ev, f, op, ok) == \E i \in 1..Len(ev) : ev[i] = [file |-> f, op |-> op, ok |-> ok]

\* C35: in the uploader, a file whose upload succeeded in a cycle and whose
\* move did not is still in the network directory after the cycle; a cycle
\* that lists the directory processes every uploadable file that is in it,
\* such a file included; every successful upload adds one file to the Drive
\* folder, under the base name if the folder has no copy and under the next
\* free suffix if it has; and a file leaves the network directory only in a
\* cycle in which both its upload and its move succeeded.
C35_FailedMoveUploadsAgain ==
    /\ [](uploader_cycle.n >= 1 =>
             \A f \in Range(uploader_cycle.files) :
                 (Did(f, "upload", TRUE) /\ ~Did(f, "move", TRUE)) => f \in network_dir)
    /\ [][(uploader_cycle'.n # uploader_cycle.n /\ uploader_cycle'.files # <<>>) =>
             LET ev == uploader_cycle'.events IN
             /\ Range(uploader_cycle'.files) = {f \in network_dir : Uploadable(f)}
             /\ \A f \in Range(uploader_cycle'.files) :
                   \/ DidIn(ev, f, "upload", TRUE)
                   \/ DidIn(ev, f, "upload", FALSE)
             /\ \A f \in UploadFiles :
                   Copies(drive', f) =
                       IF DidIn(ev, f, "upload", TRUE)
                       THEN Copies(drive, f)
                                \cup {DriveName(f, Cardinality(Copies(drive, f)))}
                       ELSE Copies(drive, f)]_vars
    /\ [][\A f \in network_dir \ network_dir' :
             /\ DidIn(uploader_cycle'.events, f, "upload", TRUE)
             /\ DidIn(uploader_cycle'.events, f, "move", TRUE)
             /\ f \in processed_dir']_vars

\* B.PDF was never moved to Processed and the second cycle has uploaded it
\* again: the Drive folder holds it under its own name and under the
\* suffix _(1).
C35_Witness ==
    /\ uploader_cycle.n = 2
    /\ Did("B.PDF", "upload", TRUE)
    /\ Did("B.PDF", "move", FALSE)
    /\ "B.PDF" \in network_dir
    /\ "B.PDF" \notin processed_dir
    /\ Copies(drive, "B.PDF") = {DriveName("B.PDF", 0), DriveName("B.PDF", 1)}

\* C36: a call of rollover_blocks with a negative max_blocks fails, and it
\* fails before any entry is evicted: active_block_state and
\* block_start_time are as the call found them.
C36_NegativeLimitRejected ==
    (IsRollover /\ call.max_blocks < 0) =>
        /\ call.raised
        /\ active_block_state = PreState
        /\ block_start_time = PreStart

\* The limits build_slack_blocks is called with.
Limits == 0..MaxBlocks

\* C37: for every store and every max_blocks >= 0, build_slack_blocks
\* returns the header, the divider and then either one section per entry
\* for the first max_blocks entries of the store, in insertion order and
\* with the emoji of the entry's colour, or, when there is no such entry,
\* exactly one placeholder section; after rollover_blocks with the same
\* max_blocks every entry of the store has its section.
C37_PayloadShape ==
    /\ \A max_blocks \in Limits :
          LET payload == build_slack_blocks(active_block_state, max_blocks)
              shown   == IF Len(active_block_state) < max_blocks
                         THEN Len(active_block_state) ELSE max_blocks
          IN  /\ payload[1][1] = "header"
              /\ payload[2][1] = "divider"
              /\ shown > 0 =>
                    /\ Len(payload) = 2 + shown
                    /\ \A i \in 1..shown :
                          /\ payload[2 + i][2] = active_block_state[i][1]
                          /\ payload[2 + i][1] = emoji_map(active_block_state[i][2])
              /\ shown = 0 =>
                    /\ Len(payload) = 3
                    /\ payload[3] = <<":zzz:", "No scripts currently running">>
    /\ (IsRollover /\ call.max_blocks >= 0) =>
          LET payload == build_slack_blocks(active_block_state, call.max_blocks) IN
          \A n \in KeySet(active_block_state) :
              \E i \in 3..Len(payload) : payload[i][2] = n

\* A rollover with max_blocks = 2 evicted an entry; the payload for the
\* same limit shows the two entries that are left, in insertion order, and
\* the payload for limit 1 shows the older one only.
C37_Witness ==
    /\ IsRollover
    /\ call.max_blocks = 2
    /\ call.evicted # <<>>
    /\ Len(active_block_state) = 2
    /\ Len(build_slack_blocks(active_block_state, 2)) = 4
    /\ build_slack_blocks(active_block_state, 2)[3][2] = active_block_state[1][1]
    /\ build_slack_blocks(active_block_state, 2)[4][2] = active_block_state[2][1]
    /\ Len(build_slack_blocks(active_block_state, 1)) = 3
    /\ build_slack_blocks(active_block_state, 1)[3][2] = active_block_state[1][1]

----------------------------------------------------------------------------
\* script_tracker/slack_script_tracker.py: update_live_status, which keeps
\* for every script a list of block colours.

\* The last datetime.now() of a run.
MaxTrackerTime == 3

\* The scripts a scan of the host can report to the tracker.
TrackerScripts == {"x", "y"}

\* active_block_state.get(script, [])[-1:]
LastStatus(state, script) ==
    IF script \in DOMAIN state /\ state[script] # <<>>
    THEN <<state[script][Len(state[script])]>>
    ELSE <<>>

\* Body of the first loop, `for script in scripts`.
TrackerOnActive(st, script, ct, now) ==
    LET st1 == IF script \notin KeySet(st.script_history)
               THEN [script_history     |-> SetItem(st.script_history, script, <<>>),
                     active_block_state |-> FSet(st.active_block_state, script, <<>>),
                     block_start_time   |-> FSet(st.block_start_time, script, now)]
               ELSE st
        last_time == IF script \in DOMAIN st1.block_start_time
                     THEN st1.block_start_time[script]
                     ELSE now - ct
    IN  IF st1.active_block_state[script] = <<>> \/ now - last_time >= ct
        THEN [st1 EXCEPT !.active_block_state =
                             FSet(@, script, Append(@[script], "green")),
                         !.block_start_time = FSet(@, script, now)]
        ELSE st1

\* Body of the second loop, `for script in script_history.keys()`.
TrackerOnKnown(st, script, scripts_now, now) ==
    LET last_status == LastStatus(st.active_block_state, script) IN
    IF script \notin scripts_now /\ (last_status = <<>> \/ last_status[1] # "red")
    THEN [st EXCEPT !.active_block_state =
                        FSet(@, script,
                             Append(IF script \in DOMAIN @ THEN @[script] ELSE <<>>, "red")),
                    !.block_start_time = FSet(@, script, now)]
    ELSE st

\* Body of the third loop, `for script in scripts`.
TrackerOnReturned(st, script, now) ==
    LET last_status == LastStatus(st.active_block_state, script) IN
    IF last_status # <<>> /\ last_status[1] = "red"
    THEN [st EXCEPT !.active_block_state =
                        FSet(@, script,
                             [@[script] EXCEPT ![Len(@[script])] = "orange"]),
                    !.block_start_time = FSet(@, script, now)]
    ELSE st

RECURSIVE TrackerActiveLoop(_, _, _, _)
TrackerActiveLoop(st, order, ct, now) ==
    IF order = <<>> THEN st
    ELSE TrackerActiveLoop(TrackerOnActive(st, Head(order), ct, now), Tail(order), ct, now)

RECURSIVE TrackerKnownLoop(_, _, _, _)
TrackerKnownLoop(st, keys, scripts_now, now) ==
    IF keys = <<>> THEN st
    ELSE TrackerKnownLoop(TrackerOnKnown(st, Head(keys), scripts_now, now),
                          Tail(keys), scripts_now, now)

RECURSIVE TrackerReturnedLoop(_, _, _)
TrackerReturnedLoop(st, order, now) ==
    IF order = <<>> THEN st
    ELSE TrackerReturnedLoop(TrackerOnReturned(st, Head(order), now), Tail(order), now)

\* update_live_status(scripts, cycle_time) of the tracker: `order` is the
\* order in which the set scripts is iterated, `now` its datetime.now().
tracker_update_live_status(st, order, scripts_now, ct, now) ==
    LET st1 == TrackerActiveLoop(st, order, ct, now)
        st2 == TrackerKnownLoop(st1, KeySeq(st1.script_history), scripts_now, now)
    IN  TrackerReturnedLoop(st2, order, now)

\* The tracker has been imported: empty dicts, a positive cycle_time.
TrackerInit ==
    /\ StoreIdle
    /\ HelpersIdle
    /\ MonitorIdle
    /\ FilesIdle
    /\ tracker = EmptyTracker
    /\ \E ct \in 1..MaxCycleTime : tracker_call = TrackerNoCall(ct)

\* One call update_live_status(scripts, config.cycle_time): the clock has
\* advanced since the call before.
TrackerUpdateCall ==
    /\ \E scripts_now \in SUBSET TrackerScripts :
       \E now \in (IF tracker_call.op = "none" THEN 0 ELSE tracker_call.now + 1)..MaxTrackerTime :
       \E order \in IterationOrders(scripts_now) :
          /\ tracker' = tracker_update_live_status(tracker, order, scripts_now,
                                                   tracker_call.cycle_time, now)
          /\ tracker_call' = [op |-> "update_live_status", scripts |-> scripts_now,
                              now |-> now, cycle_time |-> tracker_call.cycle_time,
                              pre |-> tracker]
    /\ UNCHANGED <<storeVars, helperVars, monitorVars, fileVars>>

TrackerSpec == TrackerInit /\ [][TrackerUpdateCall]_vars

\* C38: after a call of the tracker's update_live_status, every script of
\* the scripts set whose most recent block was red when the call began has
\* orange as its most recent block, however long ago the red block was
\* written.
C38_ReturnIsOrange ==
    tracker_call.op = "update_live_status" =>
        \A script \in tracker_call.scripts :
            LastStatus(tracker_call.pre.active_block_state, script) = <<"red">> =>
                LastStatus(tracker.active_block_state, script) = <<"orange">>

\* The case the code does turn orange: x is back one clock reading after its
\* red block was written, with cycle_time = 2.
C38_OrangeReached ==
    /\ tracker_call.op = "update_live_status"
    /\ "x" \in tracker_call.scripts
    /\ LastStatus(tracker_call.pre.active_block_state, "x") = <<"red">>
    /\ LastStatus(tracker.active_block_state, "x") = <<"orange">>

====
